---- MODULE Spec2Model ----
(***************************************************************************)
(* GemsChatbot: the hand-off registry (src/handoff.py), with its in-memory *)
(* and its PostgreSQL backing, and the message buffer with the worker's    *)
(* drain step, the webhook's routing, the owner commands, the processing   *)
(* threads and the worker's expiry check (src/app.py).                     *)
(*                                                                         *)
(* Specifications: SpecRace and SpecSeq (registry calls), SpecBuffer       *)
(* (buffer and drain), SpecRoute and SpecOutage (webhook routing, with the *)
(* clock or with database outages), SpecOwner (TAKE and DONE threads),     *)
(* SpecProc (_process_and_reply call by call) and SpecSweep (the expiry    *)
(* check and its notices).  A send or a call that can raise is an action   *)
(* parameter: it returns or raises.                                        *)
(*                                                                         *)
(* The registry is exercised by caller threads (the webhook's threads and  *)
(* the worker call the public API concurrently).  A call is split where    *)
(* the code can be interleaved: the part before the lock (or before the    *)
(* first SQL statement) and the part under the lock (or the statement).    *)
(*                                                                         *)
(* PostgreSQL is modelled at READ COMMITTED, psycopg2's default: every     *)
(* statement sees the rows committed when it runs, NOW() is the time the   *)
(* transaction started, and a writer waits for the row lock of another     *)
(* writer, so that a write and the commit that follows it are one step     *)
(* for every other transaction.  The handoffs table is created outside     *)
(* this repository; customer is its key (ON CONFLICT (customer)) and       *)
(* started_at, last_activity default to NOW().                             *)
(***************************************************************************)
EXTENDS Integers, Sequences, FiniteSets, TLC

\* ------------------------------------------------------------- bounds
\* The clock stops at MaxTime (registry specifications).
MaxTime == 3
\* HANDOFF_TIMEOUT_MINUTES * 60 in clock units, configured through the
\* environment; kept small so that records expire within MaxTime.
HandoffTimeout == 2

\* The fragments the webhook receives (buffer specification).
MaxFrags == 3

\* BUFFER_DELAY: MESSAGE_BUFFER_SECONDS, 30 by default.
BUFFER_DELAY == 30

\* The requests the webhook receives while processing threads are followed
\* call by call.
MaxProcFrags == 2

\* The requests the webhook receives while owners claim and release and
\* the clock runs.
MaxRouteFrags == 2

\* The longest list of replies handle_message returns.
MaxReplies == 1

\* The period of _buffer_worker's hand-off expiry check.
SWEEP_PERIOD == 60

\* The instants at which the buffer specification lets things happen: the
\* clock steps from one to the next.  They hold gaps just below (0 to 29,
\* 31 to 59), at (29 to 59) and just above (29 to 60) BUFFER_DELAY.
Instants == <<0, 15, 29, 31, 59, 60>>

\* Request bodies, all different: the i-th request carries FragmentTexts[i].
FragmentTexts == <<"m1", "m2", "m3", "m4", "m5", "m6">>

Customers == {"c1", "c2"}
\* The customer the racing callers of SpecRace contend for.
RaceCustomers == {"c1"}
Owners == {"A", "B", "C"}
Threads == {"t1", "t2", "t3"}
Backings == {"mem", "db"}
\* _owner_numbers(): the set of the numbers OWNER_WHATSAPP_NUMBERS lists. A
\* loop over it visits them in the order of the interpreter's string
\* hashes, which the program does not fix.
owner_numbers == Owners
\* A reply of handle_message: its body holds ESCALATION_PHRASE
\* ("escalation"), or it has another body or a picture or a film to send
\* ("plain"), or its body is '' and it has neither picture nor film
\* ("empty").
ReplyKinds == {"plain", "escalation", "empty"}
\* The threads webhook starts for owner messages, and the commands they get.
Handlers == {"h1", "h2"}
Commands == {"TAKE", "DONE"}

VARIABLES
    backing,    \* "db" when _DATABASE_URL is set, else "mem"
    now,        \* the clock: time.monotonic(), datetime.now(), NOW()
    handoffs,   \* _handoffs: customer -> record (in-memory backing)
    table,      \* rows of the handoffs table: customer -> record
    rpc,        \* caller thread -> where it is in its call
    rcall,      \* caller thread -> the call it makes and what it returned
    buffer,     \* _buffer: sender -> [messages, last_received]
    inflight,   \* webhook requests past the hand-off test, before _buffer_lock
    nfrag,      \* requests received so far
    wpc,        \* where _buffer_worker is in its loop
    wnow,       \* _buffer_worker's now
    ready,      \* _buffer_worker's ready: the pairs its loop has yet to reach
    procs,      \* _process_and_reply threads started and not yet finished
    arrivals,   \* history: sender -> what it buffered since its last drain
    delivered,  \* history: fragment -> drained texts it has appeared in
    db_up,      \* whether psycopg2.connect reaches the database
    fwd,        \* webhook requests that found an active hand-off
    failed,     \* history: request bodies whose request ended in an exception
    outbox,     \* history: the calls of _send_whatsapp_message
    hst,        \* _handle_owner_message thread -> where it is and what it did
    prun,       \* _process_and_reply thread -> where it is and what it did
    last_cleanup, \* _buffer_worker's last_cleanup
    sweep,      \* _buffer_worker's expired, with what was sent for each pair
    twin,       \* the last call made on both backings, with what each returned
    sweeps,     \* the tick times at which _buffer_worker called cleanup_expired
    ens,        \* _worker_started, _worker_start_lock, the worker threads
                \* started, and the requests inside _ensure_worker_started
    lk,         \* who holds _buffer_lock and _handoff_lock, where each thread
                \* is in its code, and the outside call it has in flight
    tk,         \* owner -> the take_over call its TAKE has in flight
    order,      \* the senders in the order _buffer (a dict) and ready (a list)
                \* hold them
    cnow        \* the clock cleanup_expired read for the call in flight ({}
                \* when there is none)

routevars == <<db_up, fwd, failed, outbox>>
workvars == <<prun, last_cleanup, sweep>>
sysvars == <<twin, sweeps, ens, lk, tk, order, cnow>>
appvars == <<routevars, hst, workvars, sysvars>>
regvars_base == <<backing, now, handoffs, table, rpc, rcall>>
bufvars_base == <<buffer, inflight, nfrag, wpc, wnow, ready, procs, arrivals, delivered>>
regvars == <<regvars_base, appvars>>
bufvars == <<bufvars_base, appvars>>
vars == <<backing, now, handoffs, table, rpc, rcall,
          buffer, inflight, nfrag, wpc, wnow, ready, procs, arrivals, delivered,
          db_up, fwd, failed, outbox, hst, prun, last_cleanup, sweep, twin,
          sweeps, ens, lk, tk, order, cnow>>

\* --------------------------------------------------- dictionaries
EmptyMap == [c \in {} |-> [owner |-> "A", started_at |-> 0, last_activity |-> 0]]

\* d[k] = v
Put(d, k, v) == [c \in DOMAIN d \cup {k} |-> IF c = k THEN v ELSE d[c]]

\* d.pop(k, None) / DELETE ... WHERE customer = k
Pop(d, k) == [c \in DOMAIN d \ {k} |-> d[c]]

\* d without the keys of ks
Drop(d, ks) == [c \in DOMAIN d \ ks |-> d[c]]

Record(owner, t) == [owner |-> owner, started_at |-> t, last_activity |-> t]

\* ------------------------------------------- in-memory backing (pure)
\* existing = _handoffs.get(customer): the owner of the record, if any.
mem_existing_owner(h, customer) ==
    IF customer \in DOMAIN h THEN {h[customer].owner} ELSE {}

\* _mem_take_over without the test of the existing owner.
mem_take_over_ret_unchecked(h, owner, customer) == TRUE

\* The value returned by _mem_take_over.
mem_take_over_ret(h, owner, customer) ==
    ~(customer \in DOMAIN h /\ h[customer].owner # owner)

\* _mem_take_over writing the record before it looks at the existing owner.
mem_take_over_writes_first(h, owner, customer, t) ==
    Put(h, customer, Record(owner, t))

\* _mem_take_over leaving the record of a re-claiming owner as it is.
mem_take_over_no_refresh(h, owner, customer, t) ==
    IF customer \in DOMAIN h THEN h ELSE Put(h, customer, Record(owner, t))

\* _handoffs after _mem_take_over(owner, customer) with now = t.
mem_take_over(h, owner, customer, t) ==
    IF mem_take_over_ret(h, owner, customer)
    THEN Put(h, customer, Record(owner, t))
    ELSE h

\* _mem_release popping nothing.
mem_release_keeps(h, customer) == h

mem_release(h, customer) == Pop(h, customer)

\* None is the empty set, a record r is {r}.
mem_get_active_handoff(h, customer) ==
    IF customer \in DOMAIN h THEN {h[customer]} ELSE {}

\* _mem_touch_activity creating the record it does not find.
mem_touch_activity_creates(h, customer, t) ==
    IF customer \in DOMAIN h
    THEN [h EXCEPT ![customer].last_activity = t]
    ELSE Put(h, customer, Record("A", t))

\* _handoffs after _mem_touch_activity(customer) read the clock at t.
mem_touch_activity(h, customer, t) ==
    IF customer \in DOMAIN h
    THEN [h EXCEPT ![customer].last_activity = t]
    ELSE h

\* The customers _mem_cleanup_expired deletes when it read the clock at t.
mem_expired(h, t) ==
    {c \in DOMAIN h : t - h[c].last_activity >= HandoffTimeout}

\* The (customer, owner) tuples a cleanup returns for the customers cs.
ExpiredPairs(h, cs) == {<<c, h[c].owner>> : c \in cs}

mem_cleanup_expired(h, t) == Drop(h, mem_expired(h, t))

\* ---------------------------------------------- PostgreSQL backing (pure)
\* SELECT owner FROM handoffs WHERE customer = %s; fetchone()
db_select_owner(tbl, customer) ==
    IF customer \in DOMAIN tbl THEN {tbl[customer].owner} ELSE {}

\* row and row["owner"] != owner
db_take_over_rejects(row, owner) == row # {} /\ row # {owner}

\* INSERT ... ON CONFLICT (customer) DO UPDATE SET owner, started_at = NOW(),
\* last_activity = NOW(), committed; t is the transaction's NOW().
db_upsert(tbl, owner, customer, t) == Put(tbl, customer, Record(owner, t))

db_release(tbl, customer) == Pop(tbl, customer)

db_get_active_handoff(tbl, customer) ==
    IF customer \in DOMAIN tbl THEN {tbl[customer]} ELSE {}

db_touch_activity(tbl, customer, t) ==
    IF customer \in DOMAIN tbl
    THEN [tbl EXCEPT ![customer].last_activity = t]
    ELSE tbl

\* The cutoff _db_cleanup_expired computes when it read the clock at t.
db_cutoff(t) == t - HandoffTimeout

\* DELETE FROM handoffs WHERE last_activity < cutoff RETURNING customer, owner
db_expired(tbl, cutoff) ==
    {c \in DOMAIN tbl : tbl[c].last_activity < cutoff}

db_cleanup_expired(tbl, cutoff) == Drop(tbl, db_expired(tbl, cutoff))

\* ------------------------------------------------------ buffer (pure)
EmptyBuffer == [c \in {} |-> [messages |-> <<>>, last_received |-> 0]]

\* The webhook appending without stamping last_received again.
enqueue_no_refresh(b, user_number, user_text, t) ==
    IF user_number \in DOMAIN b
    THEN [b EXCEPT ![user_number].messages = Append(@, user_text)]
    ELSE Put(b, user_number, [messages |-> <<user_text>>, last_received |-> t])

\* _buffer after the webhook's locked section for (user_number, user_text),
\* time.monotonic() being t.
enqueue(b, user_number, user_text, t) ==
    IF user_number \in DOMAIN b
    THEN [b EXCEPT ![user_number] =
            [messages |-> Append(@.messages, user_text), last_received |-> t]]
    ELSE Put(b, user_number, [messages |-> <<user_text>>, last_received |-> t])

\* "\n".join(messages): the text as the sequence of its pieces.
RECURSIVE Join(_)
Join(messages) ==
    IF messages = <<>> THEN <<>>
    ELSE IF Len(messages) = 1 THEN <<messages[1]>>
    ELSE <<messages[1], "\n">> \o Join(Tail(messages))

\* expired_keys with > for >=.
expired_keys_strict(b, t) ==
    {u \in DOMAIN b : t - b[u].last_received > BUFFER_DELAY}

\* expired_keys of _buffer_worker's locked section, now being t.
expired_keys(b, t) ==
    {u \in DOMAIN b : t - b[u].last_received >= BUFFER_DELAY}

\* ready holding every entry, idle or not.
drain_ready_all(b, t) == {<<u, Join(b[u].messages)>> : u \in DOMAIN b}

\* ready after the locked section.
drain_ready(b, t) == {<<u, Join(b[u].messages)>> : u \in expired_keys(b, t)}

\* The locked section emptying _buffer instead of deleting expired_keys.
drain_buffer_clear(b, t) == EmptyBuffer

\* _buffer after the locked section.
drain_buffer(b, t) == Drop(b, expired_keys(b, t))

\* ------------------------------------------------------ public API
\* The registry of the configured backing.
Registry == IF backing = "db" THEN table ELSE handoffs

\* _get_conn returns a connection: psycopg2.connect raises when the
\* database cannot be reached, and the in-memory backing never connects.
DbReachable == backing = "mem" \/ db_up

\* get_active_handoff(customer) when it returns: None is {}, a record r is {r}.
get_active_handoff(customer) ==
    IF backing = "mem"
    THEN mem_get_active_handoff(handoffs, customer)
    ELSE db_get_active_handoff(table, customer)

\* touch_activity(customer) when it returns, the clock being t: the
\* registry it leaves.
touch_activity(customer, t) ==
    IF backing = "mem"
    THEN mem_touch_activity(handoffs, customer, t)
    ELSE db_touch_activity(table, customer, t)

\* release(customer): the registry it leaves.
release(customer) ==
    IF backing = "mem"
    THEN mem_release(handoffs, customer)
    ELSE db_release(table, customer)

\* What get_owner_handoff(owner) can return: None ({}) when the owner has
\* no record, else the customer of one of its records (the first in the
\* dictionary's order, or the row LIMIT 1 picks).
get_owner_handoff(owner) ==
    LET owned == {c \in DOMAIN Registry : Registry[c].owner = owner} IN
    IF owned = {} THEN {{}} ELSE {{c} : c \in owned}

\* The TAKE branch after get_owner_handoff: release(current) when the
\* owner has a record, then take_over.
take_next(current) == IF current # {} THEN "release" ELSE "take_over"

\* The branch after get_owner_handoff for a message that is no TAKE: DONE
\* releases current, any other text is forwarded to current; without a
\* record the owner gets the command list.  First the branch that treats
\* DONE as text to forward.
done_next_forwards(upper, current) == IF current # {} THEN "touch" ELSE "help"

done_next(upper, current) ==
    IF current # {}
    THEN IF upper = "DONE" THEN "release" ELSE "touch"
    ELSE "help"

\* The customers cleanup_expired() deletes when it reads the clock at t.
cleanup_expired_gone(t) ==
    IF backing = "mem"
    THEN mem_expired(handoffs, t)
    ELSE db_expired(table, db_cutoff(t))

\* cleanup_expired(), the clock being t: the registry it leaves.
cleanup_expired(t) ==
    IF backing = "mem"
    THEN mem_cleanup_expired(handoffs, t)
    ELSE db_cleanup_expired(table, db_cutoff(t))

\* The test for the expiry check asking for more than the period.
sweep_due_strict(t, last) == t - last > SWEEP_PERIOD

\* _buffer_worker's test for the expiry check.
sweep_due(t, last) == t - last >= SWEEP_PERIOD

\* The lists of replies handle_message can return.
ReplyLists == UNION {[1..n -> ReplyKinds] : n \in 0..MaxReplies}

\* An exception leaving _process_and_reply uncaught.
on_exception_escapes(s) == [s EXCEPT !.pc = "died", !.raised = TRUE]

\* _process_and_reply's except clause: the exception is logged and the
\* thread returns.
on_exception(s) == [s EXCEPT !.pc = "caught", !.raised = TRUE]

\* _process_and_reply going on to handle_message whatever the limiter said.
after_limit_ignored(allowed) == "respond"

\* After check_and_increment: the notice and return, or handle_message.
after_limit(allowed) == IF allowed THEN "respond" ELSE "notice"

\* _process_and_reply not calling _notify_owners_of_escalation.
after_replies_silent(messages, i, escalated) ==
    IF i < Len(messages) THEN "replies" ELSE "returned"

\* After i replies of messages: the next reply, or the end of the loop,
\* where escalated decides between the owners' notification and return.
after_replies(messages, i, escalated) ==
    IF i < Len(messages) THEN "replies"
    ELSE IF escalated /\ owner_numbers # {} THEN "notify"
    ELSE "returned"

\* After j owners of _notify_owners_of_escalation's loop.
after_notify(j) == IF j < Cardinality(owner_numbers) THEN "notify" ELSE "returned"

\* webhook taking a get_active_handoff that raised for None.
webhook_route_fail_open(owner, raised, handoff) ==
    IF owner THEN "owner"
    ELSE IF ~raised /\ handoff # {} THEN "forward" ELSE "buffer"

\* Where webhook takes a request with a body: to the owner commands, out
\* through the exception get_active_handoff raised, to the owner of the
\* sender's hand-off, or to the buffer.
webhook_route(owner, raised, handoff) ==
    IF owner THEN "owner"
    ELSE IF raised THEN "abort"
    ELSE IF handoff # {} THEN "forward"
    ELSE "buffer"

\* A thread that makes no call.
NoCall == [op |-> "none", owner |-> "-", customer |-> "-", t0 |-> 0,
           row |-> {}, ret |-> FALSE, rec |-> {}, expired |-> {},
           fresh |-> FALSE, disturbed |-> FALSE]

\* A _handle_owner_message thread that was not started.  current is
\* get_owner_handoff's result and row the owner take_over found (None is
\* {}), ok take_over's result, t0 the time take_over stamps its record with:
\* the clock it read before the lock, or the start of its transaction;
\* calls and sent are history: the registry calls made and the sends
\* attempted.
NoHandler == [pc |-> "idle", owner |-> "-", cmd |-> "-", customer |-> "-",
              current |-> {}, row |-> {}, ok |-> FALSE, t0 |-> 0,
              calls |-> <<>>, sent |-> {}]

\* A _process_and_reply thread before its first call.  limit is what
\* check_and_increment returned, messages what handle_message returned, i
\* and j count the replies and the owners done; calls, sent and raised are
\* history: the calls made, the sends attempted, and whether one raised.
NoProc == [pc |-> "start", limit |-> "-", messages |-> <<>>, i |-> 0,
           escalated |-> FALSE, j |-> 0,
           calls |-> <<>>, sent |-> {}, raised |-> FALSE]

\* An owner without a take_over call in flight.  customer is the call's
\* argument and t0 the time it stamps its record with: the clock it read
\* before the lock, or the start of its transaction.
NoTake == [pc |-> "idle", customer |-> "-", t0 |-> 0]

\* _buffer and ready hold no sender.
NoOrder == [buffer |-> <<>>, ready |-> <<>>]

\* No call made on both backings yet.
NoTwin == [op |-> "none", mem |-> {}, db |-> {}]

\* The threads whose locks are followed: _buffer_worker, a webhook request
\* of a customer (with the _forward_to_owner thread it starts), a
\* _handle_owner_message thread and a _process_and_reply thread.
LockThreads == {"worker", "webhook", "owner", "proc"}

\* Both locks free, every thread at its start, no call in flight.
NoLocks ==
    [buffer_lock |-> "-", handoff_lock |-> "-",
     pc |-> [th \in LockThreads |-> "idle"],
     inside |-> [th \in LockThreads |-> FALSE],
     busy |-> [th \in LockThreads |-> "-"]]

\* The requests that can be inside _ensure_worker_started at once.
Requests == {"r1", "r2", "r3"}

\* The module is loaded: _worker_started = False, _worker_start_lock free,
\* no worker thread, no request inside _ensure_worker_started.
NoWorker ==
    [started |-> FALSE, lock |-> "-", workers |-> 0,
     pc |-> [r \in Requests |-> "idle"], path |-> [r \in Requests |-> "-"]]

\* No fragment buffered yet: placeholders of the history variables.
NoArrivals == [frags |-> <<>>, first |-> -1, prev |-> -1, short |-> TRUE]

\* The state at import: empty registry, empty buffer, worker not yet in
\* its first iteration.
InitState ==
    /\ now = 0
    /\ handoffs = EmptyMap
    /\ table = EmptyMap
    /\ rpc = [t \in Threads |-> "idle"]
    /\ rcall = [t \in Threads |-> NoCall]
    /\ buffer = EmptyBuffer
    /\ inflight = {}
    /\ nfrag = 0
    /\ wpc = "sleep"
    /\ wnow = 0
    /\ ready = {}
    /\ procs = {}
    /\ arrivals = [s \in Customers |-> NoArrivals]
    /\ delivered = [i \in 1..MaxFrags |-> 0]
    /\ db_up = TRUE
    /\ fwd = {}
    /\ failed = {}
    /\ outbox = {}
    /\ hst = [h \in Handlers |-> NoHandler]
    /\ prun = <<>>
    /\ last_cleanup = 0
    /\ sweep = {}
    /\ twin = NoTwin
    /\ sweeps = <<>>
    /\ ens = NoWorker
    /\ lk = NoLocks
    /\ tk = [o \in Owners |-> NoTake]
    /\ order = NoOrder
    /\ cnow = {}

InitRegistry ==
    /\ backing \in Backings
    /\ InitState

\* The calls in flight whose customer is among cs lose their record: a
\* release or an expiry deleted it after they were made.
Disturb(calls, t, cs) ==
    [u \in Threads |->
        IF u # t /\ calls[u].op = "take_over" /\ calls[u].customer \in cs
        THEN [calls[u] EXCEPT !.disturbed = TRUE]
        ELSE calls[u]]

\* The clock advances.
Tick ==
    /\ now < MaxTime
    /\ now' = now + 1
    /\ UNCHANGED <<backing, handoffs, table, rpc, rcall, bufvars>>

\* take_over(owner, customer) is called: _mem_take_over reads the clock
\* before it takes the lock; _db_take_over connects.
TakeOverCall(t, cs) ==
    /\ rpc[t] = "idle"
    /\ \E o \in Owners, c \in cs :
         rcall' = [rcall EXCEPT ![t] =
                     [NoCall EXCEPT !.op = "take_over", !.owner = o,
                                    !.customer = c,
                                    !.t0 = IF backing = "mem" THEN now ELSE 0,
                                    !.fresh = c \notin DOMAIN Registry]]
    /\ rpc' = [rpc EXCEPT ![t] = IF backing = "mem" THEN "locked" ELSE "select"]
    /\ UNCHANGED <<backing, now, handoffs, table, bufvars>>

\* _mem_take_over under _handoff_lock.
MemTakeOver(t) ==
    /\ backing = "mem" /\ rpc[t] = "locked" /\ rcall[t].op = "take_over"
    /\ LET k == rcall[t] IN
         /\ handoffs' = mem_take_over(handoffs, k.owner, k.customer, k.t0)
         /\ rcall' = [rcall EXCEPT
                        ![t].row = mem_existing_owner(handoffs, k.customer),
                        ![t].ret = mem_take_over_ret(handoffs, k.owner, k.customer)]
    /\ rpc' = [rpc EXCEPT ![t] = "done"]
    /\ UNCHANGED <<backing, now, table, bufvars>>

\* _db_take_over: the transaction starts with the SELECT; a row of another
\* owner ends the call with False.
DbTakeOverSelect(t) ==
    /\ backing = "db" /\ rpc[t] = "select" /\ rcall[t].op = "take_over"
    /\ LET k == rcall[t]
           row == db_select_owner(table, k.customer) IN
         /\ rcall' = [rcall EXCEPT ![t].row = row, ![t].t0 = now,
                                   ![t].ret = ~db_take_over_rejects(row, k.owner)]
         /\ rpc' = [rpc EXCEPT ![t] =
                      IF db_take_over_rejects(row, k.owner) THEN "done" ELSE "upsert"]
    /\ UNCHANGED <<backing, now, handoffs, table, bufvars>>

\* _db_take_over: the INSERT ... ON CONFLICT DO UPDATE and the commit.
DbTakeOverUpsert(t) ==
    /\ backing = "db" /\ rpc[t] = "upsert" /\ rcall[t].op = "take_over"
    /\ LET k == rcall[t] IN
         table' = db_upsert(table, k.owner, k.customer, k.t0)
    /\ rpc' = [rpc EXCEPT ![t] = "done"]
    /\ UNCHANGED <<backing, now, handoffs, rcall, bufvars>>

\* release(customer) is called.
ReleaseCall(t, cs) ==
    /\ rpc[t] = "idle"
    /\ \E c \in cs :
         rcall' = [rcall EXCEPT ![t] =
                     [NoCall EXCEPT !.op = "release", !.customer = c]]
    /\ rpc' = [rpc EXCEPT ![t] = "locked"]
    /\ UNCHANGED <<backing, now, handoffs, table, bufvars>>

\* _mem_release under the lock, or _db_release's DELETE.
Release(t) ==
    /\ rpc[t] = "locked" /\ rcall[t].op = "release"
    /\ LET c == rcall[t].customer IN
         /\ IF backing = "mem"
            THEN handoffs' = mem_release(handoffs, c) /\ table' = table
            ELSE table' = db_release(table, c) /\ handoffs' = handoffs
         /\ rcall' = [Disturb(rcall, t, {c} \cap DOMAIN Registry) EXCEPT
                        ![t].row = mem_existing_owner(Registry, c)]
    /\ rpc' = [rpc EXCEPT ![t] = "done"]
    /\ UNCHANGED <<backing, now, bufvars>>

\* get_active_handoff(customer) is called.
GetActiveCall(t, cs) ==
    /\ rpc[t] = "idle"
    /\ \E c \in cs :
         rcall' = [rcall EXCEPT ![t] =
                     [NoCall EXCEPT !.op = "get_active_handoff", !.customer = c]]
    /\ rpc' = [rpc EXCEPT ![t] = "locked"]
    /\ UNCHANGED <<backing, now, handoffs, table, bufvars>>

\* _mem_get_active_handoff under the lock, or _db_get_active_handoff's SELECT.
GetActive(t) ==
    /\ rpc[t] = "locked" /\ rcall[t].op = "get_active_handoff"
    /\ LET c == rcall[t].customer IN
         rcall' = [rcall EXCEPT ![t].rec =
                     IF backing = "mem"
                     THEN mem_get_active_handoff(handoffs, c)
                     ELSE db_get_active_handoff(table, c)]
    /\ rpc' = [rpc EXCEPT ![t] = "done"]
    /\ UNCHANGED <<backing, now, handoffs, table, bufvars>>

\* touch_activity(customer) is called.
TouchCall(t, cs) ==
    /\ rpc[t] = "idle"
    /\ \E c \in cs :
         rcall' = [rcall EXCEPT ![t] =
                     [NoCall EXCEPT !.op = "touch_activity", !.customer = c]]
    /\ rpc' = [rpc EXCEPT ![t] = "locked"]
    /\ UNCHANGED <<backing, now, handoffs, table, bufvars>>

\* _mem_touch_activity reads the clock under the lock; _db_touch_activity's
\* UPDATE sets NOW().
Touch(t) ==
    /\ rpc[t] = "locked" /\ rcall[t].op = "touch_activity"
    /\ LET c == rcall[t].customer IN
         IF backing = "mem"
         THEN handoffs' = mem_touch_activity(handoffs, c, now) /\ table' = table
         ELSE table' = db_touch_activity(table, c, now) /\ handoffs' = handoffs
    /\ rpc' = [rpc EXCEPT ![t] = "done"]
    /\ UNCHANGED <<backing, now, rcall, bufvars>>

\* cleanup_expired() is called: both backings read the clock first.
CleanupCall(t) ==
    /\ rpc[t] = "idle"
    /\ rcall' = [rcall EXCEPT ![t] =
                   [NoCall EXCEPT !.op = "cleanup_expired", !.t0 = now]]
    /\ rpc' = [rpc EXCEPT ![t] = "locked"]
    /\ UNCHANGED <<backing, now, handoffs, table, bufvars>>

\* _mem_cleanup_expired under the lock, or _db_cleanup_expired's DELETE.
Cleanup(t) ==
    /\ rpc[t] = "locked" /\ rcall[t].op = "cleanup_expired"
    /\ LET gone == IF backing = "mem"
                   THEN mem_expired(handoffs, rcall[t].t0)
                   ELSE db_expired(table, db_cutoff(rcall[t].t0)) IN
         /\ IF backing = "mem"
            THEN /\ handoffs' = mem_cleanup_expired(handoffs, rcall[t].t0)
                 /\ table' = table
            ELSE /\ table' = db_cleanup_expired(table, db_cutoff(rcall[t].t0))
                 /\ handoffs' = handoffs
         /\ rcall' = [Disturb(rcall, t, gone) EXCEPT
                        ![t].expired = ExpiredPairs(Registry, gone)]
    /\ rpc' = [rpc EXCEPT ![t] = "done"]
    /\ UNCHANGED <<backing, now, bufvars>>

\* The call returns to its caller.
Return(t) ==
    /\ rpc[t] = "done"
    /\ rpc' = [rpc EXCEPT ![t] = "idle"]
    /\ rcall' = [rcall EXCEPT ![t] = NoCall]
    /\ UNCHANGED <<backing, now, handoffs, table, bufvars>>

ThreadStep(t, cs) ==
    \/ TakeOverCall(t, cs)
    \/ MemTakeOver(t)
    \/ DbTakeOverSelect(t)
    \/ DbTakeOverUpsert(t)
    \/ ReleaseCall(t, cs)
    \/ Release(t)
    \/ GetActiveCall(t, cs)
    \/ GetActive(t)
    \/ TouchCall(t, cs)
    \/ Touch(t)
    \/ CleanupCall(t)
    \/ Cleanup(t)
    \/ Return(t)

\* One caller at a time, any call, while the clock runs: the registry's
\* sequential contract on both backings.
NextSeq == Tick \/ ThreadStep("t1", Customers)

SpecSeq == InitRegistry /\ [][NextSeq]_vars

\* Every thread calls take_over and release for the same customer, in any
\* interleaving.
RaceStep(t) ==
    \/ TakeOverCall(t, RaceCustomers)
    \/ MemTakeOver(t)
    \/ DbTakeOverSelect(t)
    \/ DbTakeOverUpsert(t)
    \/ ReleaseCall(t, RaceCustomers)
    \/ Release(t)
    \/ Return(t)

NextRace == \E t \in Threads : RaceStep(t)

SpecRace == InitRegistry /\ [][NextRace]_vars

\* ------------------------------------------------------ webhook, worker
\* The clock steps to the next instant.
BufTick ==
    /\ \E i \in 1..(Len(Instants) - 1) :
         now = Instants[i] /\ now' = Instants[i + 1]
    /\ UNCHANGED <<backing, handoffs, table, rpc, rcall, bufvars>>

\* How often FragmentTexts[i] is among the pieces of text.
Occurs(i, text) == Cardinality({k \in 1..Len(text) : text[k] = FragmentTexts[i]})

\* How often FragmentTexts[i] is among the pieces of the texts of pairs.
RECURSIVE SumOccurs(_, _)
SumOccurs(i, pairs) ==
    IF pairs = {} THEN 0
    ELSE LET p == CHOOSE q \in pairs : TRUE IN
         Occurs(i, p[2]) + SumOccurs(i, pairs \ {p})

\* The configured backing is left holding r.
SetRegistry(r) ==
    /\ handoffs' = IF backing = "mem" THEN r ELSE handoffs
    /\ table' = IF backing = "db" THEN r ELSE table

\* The route of a request from user_number that arrives now.
Route(user_number) ==
    webhook_route(user_number \in Owners, ~DbReachable,
                  IF DbReachable THEN get_active_handoff(user_number) ELSE {})

\* webhook, for a sender that is no owner and has no active hand-off: the
\* request with its body has passed get_active_handoff and heads for
\* _buffer_lock.
WebhookReceive(user_number) ==
    /\ nfrag < MaxFrags
    /\ Route(user_number) = "buffer"
    /\ nfrag' = nfrag + 1
    /\ inflight' = inflight \cup
         {[user_number |-> user_number, user_text |-> FragmentTexts[nfrag + 1]]}
    /\ UNCHANGED <<regvars, buffer, wpc, wnow, ready, procs, arrivals, delivered>>

\* webhook, for a sender that is no owner and has an active hand-off: the
\* request goes on to touch_activity, with the record it found.
WebhookClaimed(user_number) ==
    /\ nfrag < MaxFrags
    /\ Route(user_number) = "forward"
    /\ nfrag' = nfrag + 1
    /\ \E handoff \in get_active_handoff(user_number) :
         fwd' = fwd \cup
           {[user_number |-> user_number, user_text |-> FragmentTexts[nfrag + 1],
             owner |-> handoff.owner, pc |-> "touch"]}
    /\ UNCHANGED <<backing, now, handoffs, table, rpc, rcall, buffer, inflight,
                   wpc, wnow, ready, procs, arrivals, delivered,
                   db_up, failed, outbox, hst, workvars, sysvars>>

\* webhook, for a sender that is no owner, when get_active_handoff raises:
\* the exception leaves webhook and the request ends.
WebhookAborts(user_number) ==
    /\ nfrag < MaxFrags
    /\ Route(user_number) = "abort"
    /\ nfrag' = nfrag + 1
    /\ failed' = failed \cup {FragmentTexts[nfrag + 1]}
    /\ UNCHANGED <<backing, now, handoffs, table, rpc, rcall, buffer, inflight,
                   wpc, wnow, ready, procs, arrivals, delivered,
                   db_up, fwd, outbox, hst, workvars, sysvars>>

\* webhook's touch_activity(user_number): the statement or the locked
\* section refreshes the record the sender has now, if any, and the request
\* goes on to start the thread; when the database cannot be reached the call
\* raises and the request ends.
WebhookTouch(f) ==
    /\ f \in fwd /\ f.pc = "touch"
    /\ IF DbReachable
       THEN /\ SetRegistry(touch_activity(f.user_number, now))
            /\ fwd' = (fwd \ {f}) \cup {[f EXCEPT !.pc = "start"]}
            /\ failed' = failed
       ELSE /\ fwd' = (fwd \ {f}) \cup {[f EXCEPT !.pc = "aborted"]}
            /\ failed' = failed \cup {f.user_text}
            /\ UNCHANGED <<handoffs, table>>
    /\ UNCHANGED <<backing, now, rpc, rcall, buffer, inflight, nfrag,
                   wpc, wnow, ready, procs, arrivals, delivered, db_up, outbox,
                   hst, workvars, sysvars>>

\* threading.Thread(target=_forward_to_owner).start(): the thread runs
\* (ok), or the start raises RuntimeError, which leaves webhook with the
\* record refreshed and no thread to send the body.
WebhookStart(f, ok) ==
    /\ f \in fwd /\ f.pc = "start"
    /\ fwd' = (fwd \ {f}) \cup {[f EXCEPT !.pc = IF ok THEN "forward" ELSE "aborted"]}
    /\ failed' = IF ok THEN failed ELSE failed \cup {f.user_text}
    /\ UNCHANGED <<regvars_base, buffer, inflight, nfrag, wpc, wnow, ready, procs,
                   arrivals, delivered, db_up, outbox, hst, workvars, sysvars>>

\* The _forward_to_owner thread webhook started: the body goes to the
\* owner of the record webhook found (ok) and the thread goes on to the
\* customer's history, or the send raises and the thread ends with nothing
\* sent.
ForwardToOwner(f, ok) ==
    /\ f \in fwd /\ f.pc = "forward"
    /\ fwd' = (fwd \ {f}) \cup {[f EXCEPT !.pc = IF ok THEN "sent" ELSE "raised"]}
    /\ outbox' = IF ok
                 THEN outbox \cup
                        {[to |-> f.owner, kind |-> "forward", about |-> f.user_number,
                          body |-> f.user_text]}
                 ELSE outbox
    /\ UNCHANGED <<backing, now, handoffs, table, rpc, rcall, buffer, inflight,
                   nfrag, wpc, wnow, ready, procs, arrivals, delivered,
                   db_up, failed, hst, workvars, sysvars>>

\* _forward_to_owner's append_human_exchange(user_number, ...), the
\* thread's last call: the thread ends whether or not it raises.
ForwardAppend(f) ==
    /\ f \in fwd /\ f.pc = "sent"
    /\ fwd' = (fwd \ {f}) \cup {[f EXCEPT !.pc = "done"]}
    /\ UNCHANGED <<regvars_base, buffer, inflight, nfrag, wpc, wnow, ready, procs,
                   arrivals, delivered, db_up, failed, outbox, hst, workvars, sysvars>>

\* The database becomes unreachable, or reachable again.
DbOutage ==
    /\ backing = "db"
    /\ db_up' = ~db_up
    /\ UNCHANGED <<backing, now, handoffs, table, rpc, rcall, buffer, inflight,
                   nfrag, wpc, wnow, ready, procs, arrivals, delivered,
                   fwd, failed, outbox, hst, workvars, sysvars>>

\* webhook's section under _buffer_lock: append or create, stamped with the
\* clock read under the lock; a created entry is the dict's last.
WebhookBuffer(r) ==
    /\ r \in inflight
    /\ inflight' = inflight \ {r}
    /\ buffer' = enqueue(buffer, r.user_number, r.user_text, now)
    /\ arrivals' = [arrivals EXCEPT ![r.user_number] =
         [frags |-> Append(@.frags, r.user_text),
          first |-> IF @.frags = <<>> THEN now ELSE @.first,
          prev  |-> now,
          short |-> IF @.frags = <<>> THEN TRUE
                    ELSE @.short /\ now - @.prev < BUFFER_DELAY]]
    /\ order' = [order EXCEPT !.buffer = IF r.user_number \in DOMAIN buffer
                                         THEN @ ELSE Append(@, r.user_number)]
    /\ UNCHANGED <<regvars_base, routevars, hst, workvars, twin, sweeps, ens, lk, tk,
                   cnow, nfrag, wpc, wnow, ready, procs, delivered>>

\* _buffer_worker wakes from time.sleep(1), reads the clock, empties ready.
WorkerWake ==
    /\ wpc = "sleep"
    /\ wpc' = "drain"
    /\ wnow' = now
    /\ ready' = {}
    /\ UNCHANGED <<regvars, buffer, inflight, nfrag, procs, arrivals, delivered>>

\* _buffer_worker's section under _buffer_lock: the drain step.  ready gets
\* its pairs in the order _buffer held their senders.
WorkerDrain ==
    /\ wpc = "drain"
    /\ wpc' = "dispatch"
    /\ ready' = drain_ready(buffer, wnow)
    /\ buffer' = drain_buffer(buffer, wnow)
    /\ arrivals' = [u \in Customers |->
         IF \E p \in drain_ready(buffer, wnow) : p[1] = u
         THEN [arrivals[u] EXCEPT !.frags = <<>>, !.short = TRUE]
         ELSE arrivals[u]]
    /\ delivered' = [i \in 1..MaxFrags |->
         delivered[i] + SumOccurs(i, drain_ready(buffer, wnow))]
    /\ order' = [buffer |-> SelectSeq(order.buffer,
                              LAMBDA u : u \in DOMAIN drain_buffer(buffer, wnow)),
                 ready |-> SelectSeq(order.buffer,
                              LAMBDA u : \E p \in drain_ready(buffer, wnow) : p[1] = u)]
    /\ UNCHANGED <<regvars_base, routevars, hst, workvars, twin, sweeps, ens, lk, tk,
                   cnow, inflight, nfrag, wnow, procs>>

\* _buffer_worker's loop over ready: threading.Thread(...).start() for the
\* next pair.  ok is whether start() returns; it raises RuntimeError when no
\* thread can be started, and the call is not inside a try block: the
\* exception leaves the function, the worker's thread ends and the pairs the
\* loop had not reached are lost with it.
WorkerDispatch(ok) ==
    /\ wpc = "dispatch" /\ ready # {}
    /\ LET p == CHOOSE q \in ready : q[1] = Head(order.ready) IN
         IF ok
         THEN /\ procs' = procs \cup {p}
              /\ ready' = ready \ {p}
              /\ order' = [order EXCEPT !.ready = Tail(@)]
              /\ wpc' = wpc
         ELSE /\ procs' = procs
              /\ ready' = {}
              /\ order' = [order EXCEPT !.ready = <<>>]
              /\ wpc' = "dead"
    /\ UNCHANGED <<regvars_base, routevars, hst, workvars, twin, sweeps, ens, lk, tk,
                   cnow, buffer, inflight, nfrag, wnow, arrivals, delivered>>

\* _buffer_worker after the loop over ready: on to the expiry check when it
\* is due, else back to sleep.
WorkerCheck ==
    /\ wpc = "dispatch" /\ ready = {}
    /\ wpc' = IF sweep_due(wnow, last_cleanup) THEN "sweep" ELSE "sleep"
    /\ UNCHANGED <<regvars, buffer, inflight, nfrag, wnow, ready, procs, arrivals,
                   delivered>>

\* _buffer_worker's expiry check: last_cleanup = now, and cleanup_expired()
\* is called: it reads the clock (for its cutoff, on PostgreSQL) before it
\* waits for _handoff_lock or connects.
WorkerSweep ==
    /\ wpc = "sweep"
    /\ last_cleanup' = wnow
    /\ sweeps' = Append(sweeps, wnow)
    /\ cnow' = {now}
    /\ wpc' = "cleanup"
    /\ UNCHANGED <<regvars_base, buffer, inflight, nfrag, wnow, ready, procs,
                   arrivals, delivered, routevars, hst, prun, sweep, twin, ens, lk,
                   tk, order>>

\* cleanup_expired's locked section, or its DELETE, with the clock it read;
\* expired = what it returns.  Without expired pairs the loop over them is
\* empty and the worker sleeps again.
WorkerCleanup ==
    /\ wpc = "cleanup"
    /\ DbReachable
    /\ \E t \in cnow :
         LET gone == cleanup_expired_gone(t) IN
           /\ sweep' = {[customer |-> p[1], owner |-> p[2],
                         to_owner |-> "pending", to_customer |-> "pending"] :
                        p \in ExpiredPairs(Registry, gone)}
           /\ wpc' = IF gone = {} THEN "sleep" ELSE "notify"
           /\ SetRegistry(cleanup_expired(t))
    /\ cnow' = {}
    /\ UNCHANGED <<backing, now, rpc, rcall, buffer, inflight, nfrag, wnow, ready,
                   procs, arrivals, delivered, routevars, hst, prun, last_cleanup,
                   twin, sweeps, ens, lk, tk, order>>

\* cleanup_expired() raises, the database being out of reach: the call is
\* not inside a try block, so the exception leaves the loop and the
\* function, and the thread ends.
WorkerSweepRaises ==
    /\ wpc = "cleanup"
    /\ ~DbReachable
    /\ cnow' = {}
    /\ wpc' = "dead"
    /\ UNCHANGED <<regvars_base, buffer, inflight, nfrag, wnow, ready, procs,
                   arrivals, delivered, routevars, hst, workvars, twin, sweeps, ens,
                   lk, tk, order>>

\* The loop over expired is between two pairs.
BetweenPairs == \A e \in sweep : e.to_owner = "pending" \/ e.to_customer # "pending"

\* The loop over expired takes the next pair and sends the auto-release
\* notice to its owner; a send that raises leaves the try block, and the
\* send to the customer with it.
NotifyOwner(e, ok) ==
    /\ wpc = "notify" /\ BetweenPairs
    /\ e \in sweep /\ e.to_owner = "pending"
    /\ sweep' = (sweep \ {e}) \cup
         {IF ok THEN [e EXCEPT !.to_owner = "sent"]
          ELSE [e EXCEPT !.to_owner = "failed", !.to_customer = "skipped"]}
    /\ UNCHANGED <<regvars_base, bufvars_base, routevars, hst, prun, last_cleanup, sysvars>>

\* The second send of the try block: the customer is told it is back with
\* the assistant.
NotifyCustomer(e, ok) ==
    /\ wpc = "notify"
    /\ e \in sweep /\ e.to_owner = "sent" /\ e.to_customer = "pending"
    /\ sweep' = (sweep \ {e}) \cup
         {[e EXCEPT !.to_customer = IF ok THEN "sent" ELSE "failed"]}
    /\ UNCHANGED <<regvars_base, bufvars_base, routevars, hst, prun, last_cleanup, sysvars>>

\* The loop over expired is through: the worker sleeps again.
WorkerSweepEnd ==
    /\ wpc = "notify"
    /\ \A e \in sweep : e.to_customer # "pending"
    /\ wpc' = "sleep"
    /\ UNCHANGED <<regvars_base, buffer, inflight, nfrag, wnow, ready, procs,
                   arrivals, delivered, appvars>>

\* _process_and_reply(p) calls check_and_increment, which returns whether
\* the sender is within its daily limit, or raises.
ProcLimiter(p, outcome) ==
    /\ p \in procs /\ p \notin DOMAIN prun
    /\ LET s == [NoProc EXCEPT !.calls = <<"check_and_increment">>] IN
         prun' = Put(prun, p,
           IF outcome = "raise" THEN on_exception(s)
           ELSE [s EXCEPT !.limit = outcome,
                          !.pc = after_limit(outcome = "allowed")])
    /\ UNCHANGED <<regvars_base, bufvars_base, routevars, hst, last_cleanup, sweep, sysvars>>

\* The daily-limit notice goes to the sender, and the thread returns.
ProcNotice(p, ok) ==
    /\ p \in DOMAIN prun /\ prun[p].pc = "notice"
    /\ LET s == [prun[p] EXCEPT
                   !.sent = @ \cup {[to |-> p[1], kind |-> "limit", ok |-> ok]}] IN
         prun' = [prun EXCEPT ![p] =
                    IF ok THEN [s EXCEPT !.pc = "returned"] ELSE on_exception(s)]
    /\ UNCHANGED <<regvars_base, bufvars_base, routevars, hst, last_cleanup, sweep, sysvars>>

\* messages = handle_message(...), which returns a list of replies or raises.
ProcRespond(p, raises, messages) ==
    /\ p \in DOMAIN prun /\ prun[p].pc = "respond"
    /\ LET s == [prun[p] EXCEPT !.calls = Append(@, "handle_message")] IN
         prun' = [prun EXCEPT ![p] =
                    IF raises THEN on_exception(s)
                    ELSE [s EXCEPT !.messages = messages,
                                   !.pc = after_replies(messages, 0, FALSE)]]
    /\ UNCHANGED <<regvars_base, bufvars_base, routevars, hst, last_cleanup, sweep, sysvars>>

\* One turn of the loop over messages, up to the send: escalated is set;
\* a reply with no body and no media sends nothing and the loop goes on;
\* any other reply is sent, and the send returns (ok) or raises.
ProcReply(p, ok) ==
    /\ p \in DOMAIN prun /\ prun[p].pc = "replies"
    /\ LET k == prun[p]
           msg == k.messages[k.i + 1]
           e == [k EXCEPT !.escalated = @ \/ msg = "escalation"]
           s == [e EXCEPT !.sent = @ \cup {[to |-> p[1], kind |-> msg, ok |-> ok]}] IN
         prun' = [prun EXCEPT ![p] =
                    IF msg = "empty"
                    THEN [e EXCEPT !.i = k.i + 1,
                                   !.pc = after_replies(k.messages, k.i + 1, e.escalated)]
                    ELSE IF ok THEN [s EXCEPT !.pc = "waiting"]
                    ELSE on_exception(s)]
    /\ UNCHANGED <<regvars_base, bufvars_base, routevars, hst, last_cleanup, sweep, sysvars>>

\* The rest of the turn, with the reply out: _wait_for_message_delivered
\* polls the transport (and a film is followed by time.sleep(3)) while the
\* other threads run; the wait returns (ok) and the loop goes on, or a
\* fetch raises.
ProcWait(p, ok) ==
    /\ p \in DOMAIN prun /\ prun[p].pc = "waiting"
    /\ LET k == prun[p] IN
         prun' = [prun EXCEPT ![p] =
                    IF ok
                    THEN [k EXCEPT !.i = k.i + 1,
                                   !.pc = after_replies(k.messages, k.i + 1, k.escalated)]
                    ELSE on_exception(k)]
    /\ UNCHANGED <<regvars_base, bufvars_base, routevars, hst, last_cleanup, sweep, sysvars>>

\* The owners _notify_owners_of_escalation's loop has visited.
notified(k) == {r.to : r \in {x \in k.sent : x.kind = "needs_help"}}

\* One turn of _notify_owners_of_escalation's loop over _owner_numbers():
\* the set hands out any owner it has not handed out yet, and the send to
\* that owner returns (ok) or raises.
ProcNotify(p, owner, ok) ==
    /\ p \in DOMAIN prun /\ prun[p].pc = "notify"
    /\ owner \in owner_numbers \ notified(prun[p])
    /\ LET k == prun[p]
           s == [k EXCEPT
                   !.sent = @ \cup {[to |-> owner, kind |-> "needs_help", ok |-> ok]}] IN
         prun' = [prun EXCEPT ![p] =
                    IF ok THEN [s EXCEPT !.j = k.j + 1, !.pc = after_notify(k.j + 1)]
                    ELSE on_exception(s)]
    /\ UNCHANGED <<regvars_base, bufvars_base, routevars, hst, last_cleanup, sweep, sysvars>>

\* The thread of p has ended.
ProcExit(p) ==
    /\ p \in DOMAIN prun /\ prun[p].pc \in {"returned", "caught", "died"}
    /\ procs' = procs \ {p}
    /\ prun' = Pop(prun, p)
    /\ UNCHANGED <<regvars_base, buffer, inflight, nfrag, wpc, wnow, ready,
                   arrivals, delivered, routevars, hst, last_cleanup, sweep, sysvars>>

\* A step of the thread of p.
ProcStep(p) ==
    \/ \E outcome \in {"allowed", "limited", "raise"} : ProcLimiter(p, outcome)
    \/ \E ok \in BOOLEAN : ProcNotice(p, ok)
    \/ \E messages \in ReplyLists, raises \in BOOLEAN : ProcRespond(p, raises, messages)
    \/ \E ok \in BOOLEAN : ProcReply(p, ok)
    \/ \E ok \in BOOLEAN : ProcWait(p, ok)
    \/ \E owner \in Owners, ok \in BOOLEAN : ProcNotify(p, owner, ok)
    \/ ProcExit(p)

\* A step of _buffer_worker's loop.
WorkerStep ==
    \/ WorkerWake
    \/ WorkerDrain
    \/ \E ok \in BOOLEAN : WorkerDispatch(ok)
    \/ WorkerCheck
    \/ WorkerSweep
    \/ WorkerCleanup

\* A _process_and_reply thread runs to its end.
ProcessAndReply(p) ==
    /\ p \in procs
    /\ procs' = procs \ {p}
    /\ UNCHANGED <<regvars, buffer, inflight, nfrag, wpc, wnow, ready, arrivals, delivered>>

InitBuffer ==
    /\ backing = "mem"
    /\ InitState

NextBuffer ==
    \/ BufTick
    \/ \E u \in Customers : WebhookReceive(u)
    \/ \E r \in inflight : WebhookBuffer(r)
    \/ WorkerWake
    \/ WorkerDrain
    \/ \E ok \in BOOLEAN : WorkerDispatch(ok)
    \/ WorkerCheck
    \/ WorkerSweep
    \/ WorkerCleanup
    \/ \E p \in procs : ProcessAndReply(p)

SpecBuffer == InitBuffer /\ [][NextBuffer]_vars

\* ------------------------------------------------- owner commands
\* webhook receives cmd from owner and starts a _handle_owner_message
\* thread for it.
OwnerMessage(h, owner, cmd, customer) ==
    /\ hst[h].pc \in {"idle", "done"}
    /\ hst' = [hst EXCEPT ![h] =
         [NoHandler EXCEPT
            !.pc = "lookup", !.owner = owner, !.cmd = cmd,
            !.customer = IF cmd = "TAKE" THEN customer ELSE "-"]]
    /\ UNCHANGED <<regvars_base, bufvars_base, routevars, workvars, sysvars>>

\* current = get_owner_handoff(owner)
HandlerLookup(h) ==
    /\ hst[h].pc = "lookup"
    /\ \E current \in get_owner_handoff(hst[h].owner) :
         hst' = [hst EXCEPT
                   ![h].current = current,
                   ![h].calls = Append(@, "get_owner_handoff"),
                   ![h].pc = IF hst[h].cmd = "TAKE"
                             THEN take_next(current)
                             ELSE done_next(hst[h].cmd, current)]
    /\ UNCHANGED <<regvars_base, bufvars_base, routevars, workvars, sysvars>>

\* release(current), of the TAKE branch and of DONE
HandlerRelease(h) ==
    /\ hst[h].pc = "release"
    /\ \E c \in hst[h].current : SetRegistry(release(c))
    /\ hst' = [hst EXCEPT
                 ![h].calls = Append(@, "release"),
                 ![h].pc = IF hst[h].cmd = "TAKE" THEN "take_over" ELSE "released"]
    /\ UNCHANGED <<backing, now, rpc, rcall, bufvars_base, routevars, workvars, sysvars>>

\* ok = take_over(owner, customer), in-memory: the clock is read, and the
\* thread goes on to wait for _handoff_lock.
HandlerClock(h) ==
    /\ backing = "mem" /\ hst[h].pc = "take_over"
    /\ hst' = [hst EXCEPT ![h].t0 = now,
                          ![h].calls = Append(@, "take_over"),
                          ![h].pc = "locked"]
    /\ UNCHANGED <<regvars_base, bufvars_base, routevars, workvars, sysvars>>

\* take_over, in-memory: the locked section, which stamps the record with
\* the clock read before it.
HandlerTakeOver(h) ==
    /\ backing = "mem" /\ hst[h].pc = "locked"
    /\ LET k == hst[h] IN
         /\ handoffs' = mem_take_over(handoffs, k.owner, k.customer, k.t0)
         /\ hst' = [hst EXCEPT
                      ![h].row = mem_existing_owner(handoffs, k.customer),
                      ![h].ok = mem_take_over_ret(handoffs, k.owner, k.customer),
                      ![h].pc = "reply"]
    /\ UNCHANGED <<backing, now, table, rpc, rcall, bufvars_base, routevars, workvars, sysvars>>

\* ok = take_over(owner, customer), PostgreSQL: the SELECT, with which the
\* transaction starts.
HandlerSelect(h) ==
    /\ backing = "db" /\ hst[h].pc = "take_over"
    /\ LET k == hst[h]
           row == db_select_owner(table, k.customer) IN
         hst' = [hst EXCEPT
                   ![h].row = row,
                   ![h].ok = ~db_take_over_rejects(row, k.owner),
                   ![h].t0 = now,
                   ![h].calls = Append(@, "take_over"),
                   ![h].pc = IF db_take_over_rejects(row, k.owner)
                             THEN "reply" ELSE "upsert"]
    /\ UNCHANGED <<regvars_base, bufvars_base, routevars, workvars, sysvars>>

\* take_over(owner, customer), PostgreSQL: the upsert, whose NOW() is the
\* start of the transaction, and the commit.
HandlerUpsert(h) ==
    /\ backing = "db" /\ hst[h].pc = "upsert"
    /\ table' = db_upsert(table, hst[h].owner, hst[h].customer, hst[h].t0)
    /\ hst' = [hst EXCEPT ![h].pc = "reply"]
    /\ UNCHANGED <<backing, now, handoffs, rpc, rcall, bufvars_base, routevars, workvars, sysvars>>

\* The TAKE branch tells the owner what take_over returned, and returns.
HandlerReply(h) ==
    /\ hst[h].pc = "reply"
    /\ hst' = [hst EXCEPT
                 ![h].sent = @ \cup {[to |-> hst[h].owner,
                                      kind |-> IF hst[h].ok THEN "taken" ELSE "rejected"]},
                 ![h].pc = "done"]
    /\ UNCHANGED <<regvars_base, bufvars_base, routevars, workvars, sysvars>>

\* DONE, after release(current_customer): the send to the owner.  ok is
\* whether it returns; when it raises the thread ends with the exception.
HandlerDone(h, ok) ==
    /\ hst[h].pc = "released"
    /\ hst' = [hst EXCEPT
                 ![h].sent = @ \cup {[to |-> hst[h].owner, kind |-> "released"]},
                 ![h].pc = IF ok THEN "back" ELSE "done"]
    /\ UNCHANGED <<regvars_base, bufvars_base, routevars, workvars, sysvars>>

\* DONE: the send to the customer, after which the handler returns; it is
\* the thread's last statement, so the thread ends whether or not it raises.
HandlerBack(h) ==
    /\ hst[h].pc = "back"
    /\ hst' = [hst EXCEPT
                 ![h].sent = @ \cup {[to |-> c, kind |-> "back"] : c \in hst[h].current},
                 ![h].pc = "done"]
    /\ UNCHANGED <<regvars_base, bufvars_base, routevars, workvars, sysvars>>

\* No record and no recognized command: the owner gets the command list.
HandlerHelp(h) ==
    /\ hst[h].pc = "help"
    /\ hst' = [hst EXCEPT
                 ![h].sent = @ \cup {[to |-> hst[h].owner, kind |-> "help"]},
                 ![h].pc = "done"]
    /\ UNCHANGED <<regvars_base, bufvars_base, routevars, workvars, sysvars>>

\* The owner's text is no command and the owner has a record:
\* touch_activity(current_customer).
HandlerTouch(h) ==
    /\ hst[h].pc = "touch"
    /\ \E c \in hst[h].current : SetRegistry(touch_activity(c, now))
    /\ hst' = [hst EXCEPT ![h].calls = Append(@, "touch_activity"),
                          ![h].pc = "forward"]
    /\ UNCHANGED <<backing, now, rpc, rcall, bufvars_base, routevars, workvars, sysvars>>

\* The text goes to the customer: the send returns (ok) and the handler
\* goes on to the customer's history, or it raises and the thread ends with
\* the exception.
HandlerForward(h, ok) ==
    /\ hst[h].pc = "forward"
    /\ hst' = [hst EXCEPT
                 ![h].sent = @ \cup {[to |-> c, kind |-> hst[h].cmd] :
                                     c \in hst[h].current},
                 ![h].pc = IF ok THEN "append" ELSE "done"]
    /\ UNCHANGED <<regvars_base, bufvars_base, routevars, workvars, sysvars>>

\* append_human_exchange(current_customer, ...), after which the handler
\* returns: it is the thread's last call, so the thread ends whether or not
\* it raises.
HandlerAppend(h) ==
    /\ hst[h].pc = "append"
    /\ hst' = [hst EXCEPT ![h].calls = Append(@, "append_human_exchange"),
                          ![h].pc = "done"]
    /\ UNCHANGED <<regvars_base, bufvars_base, routevars, workvars, sysvars>>

\* The owners that send commands, each possibly several at once.
CommandOwners == {"A", "B"}

NextOwner ==
    \/ \E h \in Handlers, o \in CommandOwners, cmd \in Commands, c \in Customers :
         OwnerMessage(h, o, cmd, c)
    \/ \E h \in Handlers : HandlerLookup(h)
    \/ \E h \in Handlers : HandlerRelease(h)
    \/ \E h \in Handlers : HandlerClock(h)
    \/ \E h \in Handlers : HandlerTakeOver(h)
    \/ \E h \in Handlers : HandlerSelect(h)
    \/ \E h \in Handlers : HandlerUpsert(h)
    \/ \E h \in Handlers : HandlerReply(h)
    \/ \E h \in Handlers, ok \in BOOLEAN : HandlerDone(h, ok)
    \/ \E h \in Handlers : HandlerBack(h)
    \/ \E h \in Handlers : HandlerHelp(h)

SpecOwner == InitRegistry /\ [][NextOwner]_vars

\* ------------------------------------------------------------ routing
\* The owners that claim customers while requests are routed.
RouteOwners == {"A", "B"}

\* An owner's TAKE reaches take_over(owner, customer).  _mem_take_over reads
\* the clock and goes on to wait for _handoff_lock; _db_take_over connects
\* and runs its SELECT, with which the transaction starts: a row of another
\* owner ends the call with False.
OwnerTakes(owner, customer) ==
    /\ DbReachable
    /\ tk[owner].pc = "idle"
    /\ tk' = [tk EXCEPT ![owner] =
                IF backing = "mem"
                THEN [pc |-> "locked", customer |-> customer, t0 |-> now]
                ELSE IF db_take_over_rejects(db_select_owner(table, customer), owner)
                     THEN NoTake
                     ELSE [pc |-> "upsert", customer |-> customer, t0 |-> now]]
    /\ UNCHANGED <<regvars_base, bufvars_base, routevars, hst, workvars,
                   twin, sweeps, ens, lk, order, cnow>>

\* _mem_take_over under _handoff_lock: the record is stamped with the clock
\* read before the lock.
OwnerTakeOver(owner) ==
    /\ backing = "mem" /\ tk[owner].pc = "locked"
    /\ handoffs' = mem_take_over(handoffs, owner, tk[owner].customer, tk[owner].t0)
    /\ tk' = [tk EXCEPT ![owner] = NoTake]
    /\ UNCHANGED <<backing, now, table, rpc, rcall, bufvars_base, routevars, hst,
                   workvars, twin, sweeps, ens, lk, order, cnow>>

\* _db_take_over's INSERT ... ON CONFLICT DO UPDATE and the commit; NOW() is
\* the start of the transaction.  When the database has gone the statement
\* raises and nothing is written.
OwnerUpsert(owner) ==
    /\ backing = "db" /\ tk[owner].pc = "upsert"
    /\ table' = IF db_up
                THEN db_upsert(table, owner, tk[owner].customer, tk[owner].t0)
                ELSE table
    /\ tk' = [tk EXCEPT ![owner] = NoTake]
    /\ UNCHANGED <<backing, now, handoffs, rpc, rcall, bufvars_base, routevars, hst,
                   workvars, twin, sweeps, ens, lk, order, cnow>>

\* An owner's DONE reaches release(customer).
OwnerReleases(customer) ==
    /\ DbReachable
    /\ customer \in DOMAIN Registry
    /\ SetRegistry(release(customer))
    /\ UNCHANGED <<backing, now, rpc, rcall, bufvars>>

\* Requests of customers arrive while owners claim and release c1.
NextRoute ==
    \/ Tick
    \/ \E o \in RouteOwners, c \in RaceCustomers : OwnerTakes(o, c)
    \/ \E o \in RouteOwners : OwnerTakeOver(o)
    \/ \E o \in RouteOwners : OwnerUpsert(o)
    \/ \E c \in RaceCustomers : OwnerReleases(c)
    \/ nfrag < MaxRouteFrags /\ \E u \in Customers : WebhookReceive(u)
    \/ nfrag < MaxRouteFrags /\ \E u \in Customers : WebhookClaimed(u)
    \/ \E f \in fwd : WebhookTouch(f)
    \/ \E f \in fwd, ok \in BOOLEAN : WebhookStart(f, ok)
    \/ \E f \in fwd, ok \in BOOLEAN : ForwardToOwner(f, ok)
    \/ \E f \in fwd : ForwardAppend(f)
    \/ \E r \in inflight : WebhookBuffer(r)

SpecRoute == InitRegistry /\ [][NextRoute]_vars

\* --------------------------------------------------------- processing
\* The buffer and the worker, with the threads the worker starts taken
\* call by call.
NextProc ==
    \/ BufTick
    \/ nfrag < MaxProcFrags /\ \E u \in Customers : WebhookReceive(u)
    \/ \E r \in inflight : WebhookBuffer(r)
    \/ WorkerWake
    \/ WorkerDrain
    \/ \E ok \in BOOLEAN : WorkerDispatch(ok)
    \/ WorkerCheck
    \/ WorkerSweep
    \/ WorkerCleanup
    \/ \E p \in procs, outcome \in {"allowed", "limited", "raise"} :
         ProcLimiter(p, outcome)
    \/ \E p \in procs, ok \in BOOLEAN : ProcNotice(p, ok)
    \/ \E p \in procs, messages \in ReplyLists, raises \in BOOLEAN :
         ProcRespond(p, raises, messages)
    \/ \E p \in procs, ok \in BOOLEAN : ProcReply(p, ok)
    \/ \E p \in procs, ok \in BOOLEAN : ProcWait(p, ok)
    \/ \E p \in procs, owner \in Owners, ok \in BOOLEAN : ProcNotify(p, owner, ok)
    \/ \E p \in procs : ProcExit(p)

SpecProc == InitBuffer /\ [][NextProc]_vars

\* -------------------------------------------------------------- sweep
\* Owners claim customers while the worker runs its loop with an empty
\* buffer; the sends of the expiry check succeed or raise.
NextSweep ==
    \/ BufTick
    \/ \E o \in RouteOwners, c \in Customers : OwnerTakes(o, c)
    \/ \E o \in RouteOwners : OwnerTakeOver(o)
    \/ \E o \in RouteOwners : OwnerUpsert(o)
    \/ WorkerWake
    \/ WorkerDrain
    \/ WorkerCheck
    \/ WorkerSweep
    \/ WorkerCleanup
    \/ \E e \in sweep, ok \in BOOLEAN : NotifyOwner(e, ok)
    \/ \E e \in sweep, ok \in BOOLEAN : NotifyCustomer(e, ok)
    \/ WorkerSweepEnd

SpecSweep == InitRegistry /\ [][NextSweep]_vars

\* ------------------------------------------------------------ outages
InitOutage ==
    /\ backing = "db"
    /\ InitState

\* Requests of customers arrive while the database comes and goes and
\* owners claim and release c1.
NextOutage ==
    \/ DbOutage
    \/ \E o \in RouteOwners, c \in RaceCustomers : OwnerTakes(o, c)
    \/ \E o \in RouteOwners : OwnerUpsert(o)
    \/ \E c \in RaceCustomers : OwnerReleases(c)
    \/ \E u \in Customers : WebhookReceive(u)
    \/ \E u \in Customers : WebhookClaimed(u)
    \/ \E u \in Customers : WebhookAborts(u)
    \/ \E f \in fwd : WebhookTouch(f)
    \/ \E f \in fwd, ok \in BOOLEAN : WebhookStart(f, ok)
    \/ \E f \in fwd, ok \in BOOLEAN : ForwardToOwner(f, ok)
    \/ \E f \in fwd : ForwardAppend(f)
    \/ \E r \in inflight : WebhookBuffer(r)

SpecOutage == InitOutage /\ [][NextOutage]_vars

\* ----------------------------------------------------- both backings
\* The same sequential calls are made on the in-memory dictionary and on
\* the table, each at the same reading of the clock; twin keeps what the
\* two backings returned for the last call.

\* _mem_get_owner_handoff / _db_get_owner_handoff: None ({}) or a customer
\* of the owner.
mem_get_owner_handoff(h, owner) ==
    LET owned == {c \in DOMAIN h : h[c].owner = owner} IN
    IF owned = {} THEN {{}} ELSE {{c} : c \in owned}

db_get_owner_handoff(tbl, owner) ==
    LET owned == {c \in DOMAIN tbl : tbl[c].owner = owner} IN
    IF owned = {} THEN {{}} ELSE {{c} : c \in owned}

\* _mem_list_active / _db_list_active: the (customer, owner) records.
mem_list_active(h) == {<<c, h[c].owner>> : c \in DOMAIN h}

db_list_active(tbl) == {<<c, tbl[c].owner>> : c \in DOMAIN tbl}

TwinOwners == {"A", "B"}

InitTwin ==
    /\ backing = "mem"
    /\ InitState

TwinFrame == UNCHANGED <<backing, now, rpc, rcall, bufvars_base, routevars,
                         hst, workvars, sweeps, ens, lk, tk, order, cnow>>

TwinTakeOver(owner, customer) ==
    /\ twin' = [op |-> "take_over",
                mem |-> mem_take_over_ret(handoffs, owner, customer),
                db |-> ~db_take_over_rejects(
                           db_select_owner(table, customer), owner)]
    /\ handoffs' = mem_take_over(handoffs, owner, customer, now)
    /\ table' = IF db_take_over_rejects(db_select_owner(table, customer),
                                        owner)
                THEN table
                ELSE db_upsert(table, owner, customer, now)
    /\ TwinFrame

TwinRelease(customer) ==
    /\ twin' = [op |-> "release", mem |-> {}, db |-> {}]
    /\ handoffs' = mem_release(handoffs, customer)
    /\ table' = db_release(table, customer)
    /\ TwinFrame

TwinGetActive(customer) ==
    /\ twin' = [op |-> "get_active_handoff",
                mem |-> mem_get_active_handoff(handoffs, customer),
                db |-> db_get_active_handoff(table, customer)]
    /\ UNCHANGED <<handoffs, table>>
    /\ TwinFrame

TwinGetOwner(owner) ==
    /\ twin' = [op |-> "get_owner_handoff",
                mem |-> mem_get_owner_handoff(handoffs, owner),
                db |-> db_get_owner_handoff(table, owner)]
    /\ UNCHANGED <<handoffs, table>>
    /\ TwinFrame

TwinTouch(customer) ==
    /\ twin' = [op |-> "touch_activity", mem |-> {}, db |-> {}]
    /\ handoffs' = mem_touch_activity(handoffs, customer, now)
    /\ table' = db_touch_activity(table, customer, now)
    /\ TwinFrame

TwinListActive ==
    /\ twin' = [op |-> "list_active",
                mem |-> mem_list_active(handoffs),
                db |-> db_list_active(table)]
    /\ UNCHANGED <<handoffs, table>>
    /\ TwinFrame

TwinCleanup ==
    /\ twin' = [op |-> "cleanup_expired",
                mem |-> ExpiredPairs(handoffs, mem_expired(handoffs, now)),
                db |-> ExpiredPairs(table,
                                    db_expired(table, db_cutoff(now)))]
    /\ handoffs' = mem_cleanup_expired(handoffs, now)
    /\ table' = db_cleanup_expired(table, db_cutoff(now))
    /\ TwinFrame

NextTwin ==
    \/ Tick
    \/ \E o \in TwinOwners, c \in Customers : TwinTakeOver(o, c)
    \/ \E c \in Customers : TwinRelease(c)
    \/ \E c \in Customers : TwinGetActive(c)
    \/ \E o \in TwinOwners : TwinGetOwner(o)
    \/ \E c \in Customers : TwinTouch(c)
    \/ TwinListActive
    \/ TwinCleanup

SpecTwin == InitTwin /\ [][NextTwin]_vars

\* ---------------------------------------------------------- lifecycle
\* The worker's loop over two sweep periods, with an owner that claims c1
\* and keeps the claim alive, and a database that comes and goes.
LifeInstants == <<0, 59, 60, 61, 119, 120, 121>>

LifeLast == LifeInstants[Len(LifeInstants)]

LifeTick ==
    /\ \E i \in 1..(Len(LifeInstants) - 1) :
         now = LifeInstants[i] /\ now' = LifeInstants[i + 1]
    /\ UNCHANGED <<backing, handoffs, table, rpc, rcall, bufvars>>

\* _handle_owner_message forwards an owner's text to its customer:
\* touch_activity(current_customer) refreshes the record.
OwnerTouches(customer) ==
    /\ DbReachable
    /\ customer \in DOMAIN Registry
    /\ SetRegistry(touch_activity(customer, now))
    /\ UNCHANGED <<backing, now, rpc, rcall, bufvars>>

\* A step of _buffer_worker, expiry check and its sends included.
LifeWorker ==
    \/ WorkerWake
    \/ WorkerDrain
    \/ WorkerCheck
    \/ WorkerSweep
    \/ WorkerCleanup
    \/ WorkerSweepRaises
    \/ \E e \in sweep, ok \in BOOLEAN : NotifyOwner(e, ok)
    \/ \E e \in sweep, ok \in BOOLEAN : NotifyCustomer(e, ok)
    \/ WorkerSweepEnd

NextLife ==
    \/ LifeTick
    \/ DbOutage
    \/ \E c \in RaceCustomers : OwnerTakes("A", c)
    \/ OwnerTakeOver("A")
    \/ OwnerUpsert("A")
    \/ \E c \in RaceCustomers : OwnerTouches(c)
    \/ WorkerWake
    \/ WorkerDrain
    \/ WorkerCheck
    \/ WorkerSweep
    \/ WorkerCleanup
    \/ WorkerSweepRaises
    \/ \E e \in sweep, ok \in BOOLEAN : NotifyOwner(e, ok)
    \/ \E e \in sweep, ok \in BOOLEAN : NotifyCustomer(e, ok)
    \/ WorkerSweepEnd

SpecLife == InitRegistry /\ [][NextLife]_vars

\* The clock advances and the worker's thread is scheduled whenever it has
\* a step to take (time.sleep(1) returns, a daemon thread runs).
SpecLifeFair == SpecLife /\ WF_vars(LifeTick) /\ WF_vars(LifeWorker)

\* ------------------------------------------------------- worker start
\* _ensure_worker_started skipping the test under the lock.
ensure_recheck_skipped(started) == "start"

\* if _worker_started: return    (before the lock)
ensure_check(started) == IF started THEN "done" ELSE "acquire"

\* if _worker_started: return    (under _worker_start_lock)
ensure_recheck(started) == IF started THEN "done" ELSE "start"

EnsureFrame == UNCHANGED <<regvars_base, bufvars_base, routevars, hst, workvars,
                           twin, sweeps, lk, tk, order, cnow>>

\* webhook calls _ensure_worker_started().
EnsureCall(r) ==
    /\ ens.pc[r] = "idle"
    /\ ens' = [ens EXCEPT !.pc[r] = "check"]
    /\ EnsureFrame

\* The test of the flag before the lock.
EnsureCheck(r) ==
    /\ ens.pc[r] = "check"
    /\ ens' = [ens EXCEPT !.pc[r] = ensure_check(ens.started),
                          !.path[r] = IF ens.started THEN "fast" ELSE @]
    /\ EnsureFrame

\* with _worker_start_lock: the request gets the lock when it is free.
EnsureAcquire(r) ==
    /\ ens.pc[r] = "acquire"
    /\ ens.lock = "-"
    /\ ens' = [ens EXCEPT !.pc[r] = "recheck", !.lock = r]
    /\ EnsureFrame

\* The test of the flag under the lock; returning leaves the with block.
EnsureRecheck(r) ==
    /\ ens.pc[r] = "recheck"
    /\ ens' = [ens EXCEPT
                 !.pc[r] = ensure_recheck(ens.started),
                 !.lock = IF ensure_recheck(ens.started) = "done" THEN "-" ELSE @,
                 !.path[r] = IF ens.started THEN "recheck" ELSE @]
    /\ EnsureFrame

\* thread.start(): the worker thread runs, or the start raises and the
\* exception leaves the with block.
EnsureStart(r, ok) ==
    /\ ens.pc[r] = "start"
    /\ ens' = IF ok
              THEN [ens EXCEPT !.pc[r] = "set", !.workers = @ + 1]
              ELSE [ens EXCEPT !.pc[r] = "done", !.lock = "-",
                               !.path[r] = "failed"]
    /\ EnsureFrame

\* _worker_started = True, and the with block ends.
EnsureSet(r) ==
    /\ ens.pc[r] = "set"
    /\ ens' = [ens EXCEPT !.pc[r] = "done", !.started = TRUE, !.lock = "-",
                          !.path[r] = "started"]
    /\ EnsureFrame

NextStart ==
    \/ \E r \in Requests : EnsureCall(r)
    \/ \E r \in Requests : EnsureCheck(r)
    \/ \E r \in Requests : EnsureAcquire(r)
    \/ \E r \in Requests : EnsureRecheck(r)
    \/ \E r \in Requests, ok \in BOOLEAN : EnsureStart(r, ok)
    \/ \E r \in Requests : EnsureSet(r)

SpecStart == InitBuffer /\ [][NextStart]_vars

\* -------------------------------------------------------------- locks
\* The code of each thread as the sequence of its locked sections and of
\* its calls of the transport, the responder and the rate limiter.  What a
\* section reads decides where the thread goes next; here every branch the
\* code has is taken.

\* A with block that ends without giving its lock back.
with_exit_keeps(holder) == holder

\* The end of a with block: the lock is free again.
with_exit(holder) == "-"

\* A statement of thread th at pc: a section under _buffer_lock ("buffer"),
\* a function of handoff.py ("registry": under _handoff_lock on the
\* in-memory backing, a transaction on PostgreSQL, which can raise), a call
\* of _send_whatsapp_message / _wait_for_message_delivered ("send"), of
\* handle_message ("responder") or of check_and_increment ("limiter"), or
\* plain control flow ("goto"); next holds the statements that can follow.
LockProgram(th, pc) ==
    CASE th = "worker" /\ pc = "idle" ->          \* time.sleep(1); now
           [kind |-> "goto", next |-> {"drain"}]
      [] th = "worker" /\ pc = "drain" ->         \* with _buffer_lock: ...
           [kind |-> "buffer", next |-> {"dispatch"}]
      [] th = "worker" /\ pc = "dispatch" ->      \* Thread(...).start(); if
           [kind |-> "goto", next |-> {"idle", "cleanup", "dead"}]
      [] th = "worker" /\ pc = "cleanup" ->       \* cleanup_expired()
           [kind |-> "registry", next |-> {"idle", "to_owner"}]
      [] th = "worker" /\ pc = "to_owner" ->      \* send to owner
           [kind |-> "send", next |-> {"to_customer", "to_owner", "idle"}]
      [] th = "worker" /\ pc = "to_customer" ->   \* send to customer
           [kind |-> "send", next |-> {"to_owner", "idle"}]
      [] th = "worker" /\ pc = "dead" ->          \* the thread has ended
           [kind |-> "end", next |-> {}]
      [] th = "webhook" /\ pc = "idle" ->         \* a request of a customer
           [kind |-> "goto", next |-> {"lookup"}]
      [] th = "webhook" /\ pc = "lookup" ->       \* get_active_handoff
           [kind |-> "registry", next |-> {"touch", "append"}]
      [] th = "webhook" /\ pc = "touch" ->        \* touch_activity; start()
           [kind |-> "registry", next |-> {"forward", "idle"}]
      [] th = "webhook" /\ pc = "forward" ->      \* _forward_to_owner
           [kind |-> "send", next |-> {"idle"}]
      [] th = "webhook" /\ pc = "append" ->       \* with _buffer_lock: ...
           [kind |-> "buffer", next |-> {"idle"}]
      [] th = "owner" /\ pc = "idle" ->           \* LIST, TAKE or other text
           [kind |-> "goto", next |-> {"list", "current", "owned"}]
      [] th = "owner" /\ pc = "list" ->           \* list_active()
           [kind |-> "registry", next |-> {"reply"}]
      [] th = "owner" /\ pc = "current" ->        \* TAKE: get_owner_handoff
           [kind |-> "registry", next |-> {"switch", "take_over"}]
      [] th = "owner" /\ pc = "switch" ->         \* release(current)
           [kind |-> "registry", next |-> {"take_over"}]
      [] th = "owner" /\ pc = "take_over" ->      \* take_over(owner, customer)
           [kind |-> "registry", next |-> {"reply"}]
      [] th = "owner" /\ pc = "owned" ->          \* get_owner_handoff
           [kind |-> "registry", next |-> {"release", "touch", "reply"}]
      [] th = "owner" /\ pc = "release" ->        \* DONE: release
           [kind |-> "registry", next |-> {"released"}]
      [] th = "owner" /\ pc = "released" ->       \* send to owner
           [kind |-> "send", next |-> {"reply", "idle"}]
      [] th = "owner" /\ pc = "touch" ->          \* touch_activity
           [kind |-> "registry", next |-> {"reply"}]
      [] th = "owner" /\ pc = "reply" ->          \* the handler's last send
           [kind |-> "send", next |-> {"idle"}]
      [] th = "proc" /\ pc = "idle" ->            \* the thread is started
           [kind |-> "goto", next |-> {"limiter"}]
      [] th = "proc" /\ pc = "limiter" ->         \* check_and_increment
           [kind |-> "limiter", next |-> {"notice", "respond", "idle"}]
      [] th = "proc" /\ pc = "notice" ->          \* the daily-limit notice
           [kind |-> "send", next |-> {"idle"}]
      [] th = "proc" /\ pc = "respond" ->         \* handle_message
           [kind |-> "responder", next |-> {"turn", "idle"}]
      [] th = "proc" /\ pc = "turn" ->            \* for msg: send it, or not
           [kind |-> "goto", next |-> {"reply", "turn", "notify", "idle"}]
      [] th = "proc" /\ pc = "reply" ->           \* the reply is sent
           [kind |-> "send", next |-> {"wait", "idle"}]
      [] th = "proc" /\ pc = "wait" ->            \* its delivery is awaited
           [kind |-> "send", next |-> {"turn", "notify", "idle"}]
      [] th = "proc" /\ pc = "notify" ->          \* a send per owner
           [kind |-> "send", next |-> {"notify", "idle"}]

\* The statement thread th is at.
LockAt(th) == LockProgram(th, lk.pc[th])

LockFrame == UNCHANGED <<regvars_base, bufvars_base, routevars, hst, workvars,
                         twin, sweeps, ens, tk, order, cnow>>

\* Control flow without lock or outside call.
LockGoto(th) ==
    /\ LockAt(th).kind = "goto"
    /\ \E n \in LockAt(th).next : lk' = [lk EXCEPT !.pc[th] = n]
    /\ LockFrame

\* with _buffer_lock: the thread gets the lock when it is free.
BufferLockEnter(th) ==
    /\ LockAt(th).kind = "buffer" /\ ~lk.inside[th]
    /\ lk.buffer_lock = "-"
    /\ lk' = [lk EXCEPT !.buffer_lock = th, !.inside[th] = TRUE]
    /\ LockFrame

\* The with block ends.
BufferLockExit(th) ==
    /\ LockAt(th).kind = "buffer" /\ lk.inside[th]
    /\ \E n \in LockAt(th).next :
         lk' = [lk EXCEPT !.buffer_lock = with_exit(th), !.inside[th] = FALSE,
                          !.pc[th] = n]
    /\ LockFrame

\* A function of handoff.py is entered: with _handoff_lock on the in-memory
\* backing, a connection and a transaction on PostgreSQL.
RegistryEnter(th) ==
    /\ LockAt(th).kind = "registry" /\ ~lk.inside[th]
    /\ backing = "mem" => lk.handoff_lock = "-"
    /\ lk' = [lk EXCEPT !.handoff_lock = IF backing = "mem" THEN th ELSE @,
                        !.inside[th] = TRUE]
    /\ LockFrame

\* The function returns.
RegistryExit(th) ==
    /\ LockAt(th).kind = "registry" /\ lk.inside[th]
    /\ \E n \in LockAt(th).next :
         lk' = [lk EXCEPT
                  !.handoff_lock = IF backing = "mem" THEN with_exit(th) ELSE @,
                  !.inside[th] = FALSE, !.pc[th] = n]
    /\ LockFrame

\* The function raises on PostgreSQL: no handler has a try block around
\* its registry calls, so the request or the thread ends there.
RegistryRaises(th) ==
    /\ LockAt(th).kind = "registry" /\ lk.inside[th]
    /\ backing = "db"
    /\ lk' = [lk EXCEPT !.inside[th] = FALSE,
                        !.pc[th] = IF th = "worker" THEN "dead" ELSE "idle"]
    /\ LockFrame

\* The transport, the responder or the rate limiter is called.
OutsideCall(th) ==
    /\ LockAt(th).kind \in {"send", "responder", "limiter"}
    /\ lk.busy[th] = "-"
    /\ lk' = [lk EXCEPT !.busy[th] = LockAt(th).kind]
    /\ LockFrame

\* The call returns or raises.
OutsideReturn(th) ==
    /\ lk.busy[th] # "-"
    /\ \E n \in LockAt(th).next :
         lk' = [lk EXCEPT !.busy[th] = "-", !.pc[th] = n]
    /\ LockFrame

NextLocks ==
    \/ \E th \in LockThreads : LockGoto(th)
    \/ \E th \in LockThreads : BufferLockEnter(th)
    \/ \E th \in LockThreads : BufferLockExit(th)
    \/ \E th \in LockThreads : RegistryEnter(th)
    \/ \E th \in LockThreads : RegistryExit(th)
    \/ \E th \in LockThreads : RegistryRaises(th)
    \/ \E th \in LockThreads : OutsideCall(th)
    \/ \E th \in LockThreads : OutsideReturn(th)

SpecLocks == InitRegistry /\ [][NextLocks]_vars

\* ---------------------------------------------------- owner messages
\* What an owner can send besides TAKE: DONE, and text that is no command.
Messages == {"TAKE", "DONE", "TEXT"}

\* Owners send commands and text, each message handled by a thread of its
\* own.
NextChat ==
    \/ \E h \in Handlers, o \in CommandOwners, cmd \in Messages, c \in Customers :
         OwnerMessage(h, o, cmd, c)
    \/ \E h \in Handlers : HandlerLookup(h)
    \/ \E h \in Handlers : HandlerRelease(h)
    \/ \E h \in Handlers : HandlerClock(h)
    \/ \E h \in Handlers : HandlerTakeOver(h)
    \/ \E h \in Handlers : HandlerSelect(h)
    \/ \E h \in Handlers : HandlerUpsert(h)
    \/ \E h \in Handlers : HandlerReply(h)
    \/ \E h \in Handlers, ok \in BOOLEAN : HandlerDone(h, ok)
    \/ \E h \in Handlers : HandlerBack(h)
    \/ \E h \in Handlers : HandlerTouch(h)
    \/ \E h \in Handlers, ok \in BOOLEAN : HandlerForward(h, ok)
    \/ \E h \in Handlers : HandlerAppend(h)
    \/ \E h \in Handlers : HandlerHelp(h)

SpecChat == InitRegistry /\ [][NextChat]_vars

\* ------------------------------------------------ claims and the buffer
\* c1 sends fragments while an owner claims it, the worker drains and
\* sweeps, and the threads it starts call the limiter and the responder
\* (which answers with no reply).
NextClaimed ==
    \/ BufTick
    \/ \E c \in RaceCustomers : OwnerTakes("A", c)
    \/ OwnerTakeOver("A")
    \/ OwnerUpsert("A")
    \/ nfrag < MaxRouteFrags /\ \E u \in RaceCustomers : WebhookReceive(u)
    \/ \E r \in inflight : WebhookBuffer(r)
    \/ WorkerWake
    \/ WorkerDrain
    \/ \E ok \in BOOLEAN : WorkerDispatch(ok)
    \/ WorkerCheck
    \/ WorkerSweep
    \/ WorkerCleanup
    \/ \E e \in sweep : NotifyOwner(e, TRUE)
    \/ \E e \in sweep : NotifyCustomer(e, TRUE)
    \/ WorkerSweepEnd
    \/ \E p \in procs : ProcLimiter(p, "allowed")
    \/ \E p \in procs : ProcRespond(p, FALSE, <<>>)
    \/ \E p \in procs : ProcExit(p)

SpecClaimed == InitRegistry /\ [][NextClaimed]_vars

\* ------------------------------------------------- release and expiry
\* The worker's expiry check, taken alone: cleanup_expired() is called and
\* reads the clock.
ExpiryCall ==
    /\ cnow = {}
    /\ cnow' = {now}
    /\ UNCHANGED <<regvars_base, bufvars_base, routevars, hst, workvars,
                   twin, sweeps, ens, lk, tk, order>>

\* cleanup_expired's locked section, or its DELETE, with the clock it read.
ExpirySweep ==
    /\ DbReachable
    /\ \E t \in cnow : SetRegistry(cleanup_expired(t))
    /\ cnow' = {}
    /\ UNCHANGED <<backing, now, rpc, rcall, bufvars_base, routevars, hst, workvars,
                   twin, sweeps, ens, lk, tk, order>>

\* Owners send TAKE c1 and DONE while the clock runs and the expiry check
\* comes round.
NextRelease ==
    \/ Tick
    \/ ExpiryCall
    \/ ExpirySweep
    \/ \E h \in Handlers, o \in CommandOwners, cmd \in Commands, c \in RaceCustomers :
         OwnerMessage(h, o, cmd, c)
    \/ \E h \in Handlers : HandlerLookup(h)
    \/ \E h \in Handlers : HandlerRelease(h)
    \/ \E h \in Handlers : HandlerClock(h)
    \/ \E h \in Handlers : HandlerTakeOver(h)
    \/ \E h \in Handlers : HandlerSelect(h)
    \/ \E h \in Handlers : HandlerUpsert(h)
    \/ \E h \in Handlers : HandlerReply(h)
    \/ \E h \in Handlers, ok \in BOOLEAN : HandlerDone(h, ok)
    \/ \E h \in Handlers : HandlerBack(h)
    \/ \E h \in Handlers : HandlerHelp(h)

SpecRelease == InitRegistry /\ [][NextRelease]_vars

\* ------------------------------------------------------ buffer to thread
\* c1 sends fragments over two sweep periods while the worker runs its
\* loop and the database comes and goes; the registry stays empty.
NextFlow ==
    \/ LifeTick
    \/ DbOutage
    \/ nfrag < MaxRouteFrags /\ \E u \in RaceCustomers : WebhookReceive(u)
    \/ \E r \in inflight : WebhookBuffer(r)
    \/ WorkerWake
    \/ WorkerDrain
    \/ \E ok \in BOOLEAN : WorkerDispatch(ok)
    \/ WorkerCheck
    \/ WorkerSweep
    \/ WorkerCleanup
    \/ WorkerSweepRaises
    \/ \E p \in procs : ProcessAndReply(p)

SpecFlow == InitRegistry /\ [][NextFlow]_vars

\* A step of _buffer_worker with nothing to notify.
FlowWorker ==
    \/ WorkerWake
    \/ WorkerDrain
    \/ \E ok \in BOOLEAN : WorkerDispatch(ok)
    \/ WorkerCheck
    \/ WorkerSweep
    \/ WorkerCleanup
    \/ WorkerSweepRaises

\* The clock advances and the worker's thread is scheduled whenever it has
\* a step to take.
SpecFlowFair == SpecFlow /\ WF_vars(LifeTick) /\ WF_vars(FlowWorker)

\* ------------------------------------------------------------ claims
\* The callers of take_over for customer c that were made while c had no
\* record, and whose record no release or expiry has deleted since.
Racers(c) ==
    {t \in Threads : /\ rcall[t].op = "take_over"
                     /\ rcall[t].customer = c
                     /\ rcall[t].fresh
                     /\ ~rcall[t].disturbed}

Returned(c) == {t \in Racers(c) : rpc[t] = "done"}

Winners(c) == {t \in Returned(c) : rcall[t].ret}

DistinctOperators(T) ==
    \A t \in T, u \in T : t # u => rcall[t].owner # rcall[u].owner

\* C1: in-memory backing; when all N threads, each for a distinct operator,
\* called take_over for the same customer while it was unclaimed and all
\* have returned, exactly one returned true, the other N-1 returned false,
\* and the customer's record names the operator whose call returned true.
C1_MemRaceOneWinner ==
    backing = "mem" =>
      \A c \in Customers :
        (Racers(c) = Threads /\ Returned(c) = Threads /\ DistinctOperators(Threads))
        => /\ Cardinality(Winners(c)) = 1
           /\ Cardinality(Threads \ Winners(c)) = Cardinality(Threads) - 1
           /\ c \in DOMAIN handoffs
           /\ \A t \in Winners(c) : handoffs[c].owner = rcall[t].owner

C1_Witness ==
    /\ backing = "mem"
    /\ Racers("c1") = Threads
    /\ Returned("c1") = Threads
    /\ DistinctOperators(Threads)
    /\ Cardinality(Winners("c1")) = 1

\* C2: PostgreSQL backing; two take_over calls by distinct operators, both
\* made while the customer was unclaimed and with no deletion of its record
\* since, never both return true.
C2_DbRaceNoTwoWinners ==
    backing = "db" =>
      \A c \in Customers :
        \A t \in Winners(c), u \in Winners(c) : rcall[t].owner = rcall[u].owner

\* C3: on either backing, no step changes the operator of a record that
\* exists before and after the step.
C3_OperatorNeverChangesInPlace ==
    [][\A c \in Customers :
         (c \in DOMAIN Registry /\ c \in DOMAIN Registry')
         => Registry'[c].owner = Registry[c].owner]_vars

\* The step in which take_over looks at the existing record: the locked
\* section of _mem_take_over, the SELECT of _db_take_over.
TakeOverDecides(t) ==
    /\ rcall[t].op = "take_over"
    /\ rpc[t] \in {"locked", "select"}
    /\ rpc'[t] # rpc[t]

\* The step in which a take_over that was not rejected ends.
TakeOverCompletes(t) ==
    /\ rcall[t].op = "take_over"
    /\ rpc[t] \in {"locked", "upsert"}
    /\ rpc'[t] = "done"

HeldByOther(t) ==
    /\ rcall[t].customer \in DOMAIN Registry
    /\ Registry[rcall[t].customer].owner # rcall[t].owner

HeldBySame(t) ==
    /\ rcall[t].customer \in DOMAIN Registry
    /\ Registry[rcall[t].customer].owner = rcall[t].owner

\* C4: take_over(B, C) that finds C's record with another operator A returns
\* false and leaves every record, with its operator and both timestamps, as
\* it was; no record is added or removed.
C4_RejectedTakeOverChangesNothing ==
    [][\A t \in Threads :
         (TakeOverDecides(t) /\ HeldByOther(t))
         => /\ rpc'[t] = "done"
            /\ rcall'[t].ret = FALSE
            /\ handoffs' = handoffs
            /\ table' = table]_vars

C4_Witness ==
    \E t \in Threads :
      /\ rpc[t] = "done" /\ rcall[t].op = "take_over" /\ ~rcall[t].ret
      /\ HeldByOther(t)
      /\ Registry[rcall[t].customer].last_activity
           > Registry[rcall[t].customer].started_at
      /\ DOMAIN Registry = Customers

\* C5: take_over(A, C) while C's record already names A returns true, leaves
\* one record for C, with operator A, adds and removes no record, and sets the
\* record's last_activity to the time the call read.
C5_ReclaimRefreshes ==
    [][\A t \in Threads :
         (TakeOverCompletes(t) /\ HeldBySame(t))
         => /\ rcall'[t].ret = TRUE
            /\ DOMAIN Registry' = DOMAIN Registry
            /\ Registry'[rcall[t].customer].owner = rcall[t].owner
            /\ Registry'[rcall[t].customer].last_activity = rcall[t].t0
            /\ \A d \in DOMAIN Registry \ {rcall[t].customer} :
                  Registry'[d] = Registry[d]]_vars

C5_Witness ==
    \E t \in Threads :
      /\ rpc[t] = "done" /\ rcall[t].op = "take_over" /\ rcall[t].ret
      /\ rcall[t].row = {rcall[t].owner}
      /\ rcall[t].t0 > 0
      /\ HeldBySame(t)
      /\ Registry[rcall[t].customer].last_activity = rcall[t].t0

\* C6: release(C) removes C's record and no other, and changes nothing when
\* C has no record; while C has no record get_active_handoff(C) returns None
\* and take_over(B, C) returns true for every operator B and creates B's
\* record.
C6_ReleaseFreesCustomer ==
    [][\A t \in Threads :
         LET c == rcall[t].customer IN
         /\ (rcall[t].op = "release" /\ rpc[t] = "locked" /\ rpc'[t] = "done")
            => /\ DOMAIN Registry' = DOMAIN Registry \ {c}
               /\ \A d \in DOMAIN Registry' : Registry'[d] = Registry[d]
         /\ (rcall[t].op = "get_active_handoff" /\ rpc[t] = "locked"
               /\ rpc'[t] = "done" /\ c \notin DOMAIN Registry)
            => rcall'[t].rec = {}
         /\ (TakeOverDecides(t) /\ c \notin DOMAIN Registry)
            => rcall'[t].ret = TRUE
         /\ (TakeOverCompletes(t) /\ c \notin DOMAIN Registry)
            => /\ rcall'[t].ret = TRUE
               /\ c \in DOMAIN Registry'
               /\ Registry'[c].owner = rcall[t].owner]_vars

C6_Witness ==
    \E t \in Threads :
      /\ rpc[t] = "done" /\ rcall[t].op = "release"
      /\ rcall[t].row # {}
      /\ rcall[t].customer \notin DOMAIN Registry
      /\ Registry # EmptyMap

\* C7: on both backings cleanup_expired, having read the clock at now,
\* removes and returns exactly the records with last_activity < now - T and
\* leaves every record with last_activity >= now - T as it was.
C7_CleanupRemovesStrictlyOlder ==
    [][\A t \in Threads :
         (rcall[t].op = "cleanup_expired" /\ rpc[t] = "locked" /\ rpc'[t] = "done")
         => LET old == {c \in DOMAIN Registry :
                          Registry[c].last_activity < rcall[t].t0 - HandoffTimeout} IN
            /\ rcall'[t].expired = {<<c, Registry[c].owner>> : c \in old}
            /\ DOMAIN Registry' = DOMAIN Registry \ old
            /\ \A c \in DOMAIN Registry' : Registry'[c] = Registry[c]]_vars

\* The drain step: _buffer_worker's locked section.
DrainStep == wpc = "drain" /\ wpc' = "dispatch"

\* The pairs of rdy for sender u.
EntriesFor(rdy, u) == {p \in rdy : p[1] = u}

\* text is the fragments frags with one separator between neighbours.
JoinedInOrder(text, frags) ==
    /\ frags # <<>>
    /\ Len(text) = 2 * Len(frags) - 1
    /\ \A k \in 1..Len(frags) : text[2 * k - 1] = frags[k]
    /\ \A k \in 1..(Len(frags) - 1) : text[2 * k] = "\n"

\* Sender u has buffered exactly two fragments, at t = 0 and t = 29.
BufferedAt0And29(u) ==
    /\ Len(arrivals[u].frags) = 2
    /\ arrivals[u].first = 0
    /\ arrivals[u].prev = 29

\* C8 as stated: with fragments of S buffered at t=0 and t=29 and a threshold
\* of 30, the drain step at t=31 returns one entry for S with both fragments;
\* the drain step at t=15 returns no entry for S.
C8_DrainAt31ReturnsBoth ==
    [][DrainStep =>
        \A u \in Customers :
          /\ (BUFFER_DELAY = 30 /\ BufferedAt0And29(u) /\ wnow = 31)
             => \E p \in ready' :
                  /\ EntriesFor(ready', u) = {p}
                  /\ JoinedInOrder(p[2], arrivals[u].frags)
          /\ (BUFFER_DELAY = 30 /\ arrivals[u].frags # <<>>
                /\ arrivals[u].first = 0 /\ wnow = 15)
             => EntriesFor(ready', u) = {}]_vars

\* C8 amended: with fragments of S buffered at t=0 and t=29 and a threshold
\* of 30, the drain step at t=59 returns one entry for S with both fragments;
\* the drain steps at t=15 and at t=31 return no entry for S.
C8_DrainAt59ReturnsBoth ==
    [][DrainStep =>
        \A u \in Customers :
          /\ (BUFFER_DELAY = 30 /\ BufferedAt0And29(u) /\ wnow = 59)
             => \E p \in ready' :
                  /\ EntriesFor(ready', u) = {p}
                  /\ JoinedInOrder(p[2], arrivals[u].frags)
          /\ (BUFFER_DELAY = 30 /\ BufferedAt0And29(u) /\ wnow = 31)
             => EntriesFor(ready', u) = {}
          /\ (BUFFER_DELAY = 30 /\ arrivals[u].frags # <<>>
                /\ arrivals[u].first = 0 /\ wnow = 15)
             => EntriesFor(ready', u) = {}]_vars

C8_Witness ==
    /\ wpc = "dispatch" /\ wnow = 59
    /\ \E u \in Customers, p \in ready :
         /\ p[1] = u
         /\ Len(p[2]) = 3
         /\ arrivals[u].first = 0
         /\ arrivals[u].prev = 29
         /\ arrivals[u].frags = <<>>

\* C9: for a sender whose fragments since its last drain each came less than
\* BUFFER_DELAY after the one before, (a) a fragment that comes less than
\* BUFFER_DELAY after the sender's previous one finds that one still
\* buffered: no drain step has returned it; (b) a drain step whose now is
\* less than BUFFER_DELAY after the last fragment returns no entry for the
\* sender, and one whose now is at least BUFFER_DELAY after it returns exactly
\* one entry: the fragments in the order they were buffered, joined by "\n".
C9_BurstDrainedOnceInOrder ==
    [][/\ \A r \in inflight :
            (inflight' = inflight \ {r}
               /\ arrivals[r.user_number].prev >= 0
               /\ now - arrivals[r.user_number].prev < BUFFER_DELAY)
            => /\ arrivals[r.user_number].frags # <<>>
               /\ r.user_number \in DOMAIN buffer
               /\ buffer'[r.user_number].messages
                    = Append(arrivals[r.user_number].frags, r.user_text)
       /\ DrainStep =>
            \A u \in Customers :
              (arrivals[u].frags # <<>> /\ arrivals[u].short)
              => IF wnow - arrivals[u].prev >= BUFFER_DELAY
                 THEN \E p \in ready' :
                        /\ EntriesFor(ready', u) = {p}
                        /\ JoinedInOrder(p[2], arrivals[u].frags)
                        /\ u \notin DOMAIN buffer'
                 ELSE EntriesFor(ready', u) = {}]_vars

C9_Witness ==
    /\ wpc = "dispatch"
    /\ \E u \in Customers, p \in ready :
         /\ p[1] = u
         /\ Len(p[2]) = 5
         /\ arrivals[u].frags = <<>>
         /\ arrivals[u].first < arrivals[u].prev
         /\ arrivals[u].prev - arrivals[u].first < BUFFER_DELAY
         /\ wnow - arrivals[u].prev >= BUFFER_DELAY

\* How often FragmentTexts[i] is in a live buffer entry.
LiveCount(i) ==
    Cardinality({e \in (DOMAIN buffer) \X (1..MaxFrags) :
                   /\ e[2] <= Len(buffer[e[1]].messages)
                   /\ buffer[e[1]].messages[e[2]] = FragmentTexts[i]})

\* The webhook has appended FragmentTexts[i] to the buffer.
Enqueued(i) ==
    /\ i <= nfrag
    /\ \A r \in inflight : r.user_text # FragmentTexts[i]

\* C10: in every interleaving of the webhook's enqueues with the worker's
\* drain steps, each enqueued fragment is exactly once either in a text some
\* drain step returned or in a live buffer entry; a fragment not yet enqueued
\* is in neither.
C10_NoFragmentLostOrDuplicated ==
    \A i \in 1..MaxFrags :
      delivered[i] + LiveCount(i) = (IF Enqueued(i) THEN 1 ELSE 0)

C10_Witness ==
    /\ inflight # {}
    /\ \E u \in DOMAIN buffer, p \in ready \cup procs : p[1] = u
    /\ \E i \in 1..MaxFrags, j \in 1..MaxFrags :
         delivered[i] = 1 /\ LiveCount(j) = 1

\* C11: a drain step removes an entry if and only if now - last_received >=
\* BUFFER_DELAY for it, now being the clock the worker read; every other
\* entry keeps its fragments and its last_received and is in no returned pair.
C11_DrainTouchesOnlyIdleEntries ==
    [][DrainStep =>
        \A u \in DOMAIN buffer :
          IF wnow - buffer[u].last_received >= BUFFER_DELAY
          THEN u \notin DOMAIN buffer'
          ELSE /\ u \in DOMAIN buffer'
               /\ buffer'[u].messages = buffer[u].messages
               /\ buffer'[u].last_received = buffer[u].last_received
               /\ EntriesFor(ready', u) = {}]_vars

\* A drain step has returned one sender's entry and left the other's, which
\* was not yet idle.
C11_Witness ==
    /\ wpc = "dispatch"
    /\ \E u \in Customers, v \in DOMAIN buffer :
         /\ u # v
         /\ EntriesFor(ready, u) # {}
         /\ EntriesFor(ready, v) = {}
         /\ wnow - buffer[v].last_received < BUFFER_DELAY
         /\ wnow >= buffer[v].last_received

\* The message _forward_to_owner sends for the request f.
ForwardOf(f) ==
    [to |-> f.owner, kind |-> "forward", about |-> f.user_number,
     body |-> f.user_text]

\* The request f is in no request heading for the buffer and in no entry of it.
NotBuffered(f) ==
    /\ \A r \in inflight : r.user_text # f.user_text
    /\ \A u \in DOMAIN buffer :
         \A k \in 1..Len(buffer[u].messages) : buffer[u].messages[k] # f.user_text

\* C12: a message from a sender that is no owner and has an active hand-off
\* record when webhook looks it up is never appended to the buffer: the
\* request goes on with the owner named in that record, its touch_activity
\* leaves the sender's record with last_activity at the clock, the thread
\* for it is started, and the thread's send puts the body in the hands of
\* that owner.
C12_ClaimedSenderIsForwarded ==
    [][/\ nfrag' = nfrag + 1 =>
            /\ \A r \in inflight' \ inflight :
                 get_active_handoff(r.user_number) = {}
            /\ \A f \in fwd' \ fwd :
                 /\ f.pc = "touch"
                 /\ \E h \in get_active_handoff(f.user_number) : f.owner = h.owner
            /\ Cardinality(inflight' \ inflight) + Cardinality(fwd' \ fwd) = 1
       /\ \A f \in fwd :
            /\ (f.pc = "touch" /\ f \notin fwd') =>
                 /\ [f EXCEPT !.pc = "start"] \in fwd'
                 /\ f.user_number \in DOMAIN Registry'
                 /\ Registry'[f.user_number].last_activity = now
            /\ (f.pc = "start" /\ f \notin fwd') =>
                 [f EXCEPT !.pc = "forward"] \in fwd'
            /\ (f.pc = "forward" /\ f \notin fwd') =>
                 /\ [f EXCEPT !.pc = "sent"] \in fwd'
                 /\ outbox' = outbox \cup {ForwardOf(f)}
       /\ \A f \in fwd' : NotBuffered(f)'
      ]_vars

\* What the hand-off branch does keep: the body of a request that found a
\* record is never in the buffer, and whatever is sent for it goes to the
\* owner the lookup found.
ClaimedSenderBypassesBuffer ==
    /\ \A f \in fwd : NotBuffered(f)
    /\ \A msg \in outbox :
         msg.kind = "forward" =>
           \E f \in fwd : f.pc \in {"sent", "done"} /\ msg = ForwardOf(f)
    /\ \A f \in fwd : f.pc \in {"aborted", "raised"} => ForwardOf(f) \notin outbox

\* The customers whose record names owner.
OwnedBy(owner) == {c \in DOMAIN Registry : Registry[c].owner = owner}

\* C13: with owner commands handled each in its own thread, possibly
\* several of one owner at once, and every claim made through TAKE, no
\* reachable state has one owner holding the records of two customers.
C13_OneCustomerPerOperator ==
    \A o \in Owners : Cardinality(OwnedBy(o)) <= 1

\* The handler h runs TAKE for a customer other than the one its owner
\* held.
TakeSwitch(h) ==
    /\ hst[h].cmd = "TAKE"
    /\ hst[h].current # {}
    /\ hst[h].current # {hst[h].customer}

\* The step with which h's take_over returns.
TakeOverReturns(h) ==
    /\ hst[h].pc \in {"take_over", "locked", "upsert"}
    /\ hst'[h].pc = "reply"

\* C14: when an owner that holds a claim on C1 sends TAKE for another
\* customer C2, the handler calls get_owner_handoff, release(C1) and
\* take_over(owner, C2) in this order; and if take_over found C2 unclaimed,
\* the registry it leaves holds the owner's record for C2 and no record of
\* that owner for C1.
C14_TakeSwitchReleasesFirst ==
    [][\A h \in Handlers :
         (TakeSwitch(h) /\ TakeOverReturns(h)) =>
           /\ hst'[h].calls = <<"get_owner_handoff", "release", "take_over">>
           /\ hst'[h].row = {} =>
                /\ hst'[h].ok
                /\ hst[h].customer \in DOMAIN Registry'
                /\ Registry'[hst[h].customer].owner = hst[h].owner
                /\ \A c1 \in hst[h].current :
                     c1 \notin DOMAIN Registry' \/ Registry'[c1].owner # hst[h].owner
      ]_vars

\* The step in which t's release, cleanup_expired or touch_activity acts.
CallActs(t, op) ==
    /\ rcall[t].op = op
    /\ rpc[t] = "locked"
    /\ rpc'[t] = "done"

\* C15: for every customer, a record comes into existence only in a step of
\* a take_over for that customer that returns true, and ceases to exist
\* only in a step of release for that customer or of cleanup_expired;
\* touch_activity and a rejected take_over leave the set of records as it is.
C15_RecordsComeAndGo ==
    [][/\ \A c \in Customers :
            /\ (c \notin DOMAIN Registry /\ c \in DOMAIN Registry') =>
                 \E t \in Threads :
                   /\ TakeOverCompletes(t)
                   /\ rcall[t].customer = c
                   /\ rcall'[t].ret
            /\ (c \in DOMAIN Registry /\ c \notin DOMAIN Registry') =>
                 \E t \in Threads :
                   \/ CallActs(t, "release") /\ rcall[t].customer = c
                   \/ CallActs(t, "cleanup_expired")
       /\ \A t \in Threads :
            /\ CallActs(t, "touch_activity") => DOMAIN Registry' = DOMAIN Registry
            /\ (TakeOverDecides(t) /\ ~rcall'[t].ret) =>
                 DOMAIN Registry' = DOMAIN Registry
      ]_vars

\* cleanup_expired has just deleted the record of one customer, made by a
\* take_over, while the other customer's record, touched since, stays.
C15_Witness ==
    \E t \in Threads, c \in Customers :
      /\ rcall[t].op = "cleanup_expired" /\ rpc[t] = "done"
      /\ rcall[t].expired # {}
      /\ c \in DOMAIN Registry
      /\ Registry[c].last_activity > Registry[c].started_at

\* The body text is in no request heading for the buffer and in no entry.
TextNotBuffered(text) ==
    /\ \A r \in inflight : r.user_text # text
    /\ \A u \in DOMAIN buffer :
         \A k \in 1..Len(buffer[u].messages) : buffer[u].messages[k] # text

\* C16: when the PostgreSQL backing cannot be reached, a request from a
\* sender that is no owner appends nothing to the buffer: get_active_handoff
\* raises, the request ends there, and its body never reaches the buffer.
C16_UnreachableDbNeverBuffers ==
    [][/\ (nfrag' = nfrag + 1 /\ ~DbReachable) =>
            /\ inflight' = inflight
            /\ buffer' = buffer
            /\ fwd' = fwd
            /\ failed' = failed \cup {FragmentTexts[nfrag + 1]}
       /\ \A text \in failed' : TextNotBuffered(text)'
      ]_vars

\* A request that arrived during an outage ended at get_active_handoff,
\* and a request that arrived at another time is in the buffer.
C16_Witness ==
    /\ \E text \in failed : \A f \in fwd : f.user_text # text
    /\ buffer # EmptyBuffer

\* The step with which the loop over expired ends.
SweepEnds == wpc = "notify" /\ wpc' = "sleep"

\* C18: for every (customer, owner) pair a sweep's cleanup_expired returned,
\* the worker sends the auto-release notice to the owner and the
\* back-with-assistant notice to the customer, whatever sends to other
\* recipients did.
C18_BothPartiesNotified ==
    [][SweepEnds =>
         \A e \in sweep :
           /\ e.to_owner \in {"sent", "failed"}
           /\ e.to_customer \in {"sent", "failed"}]_vars

\* The step in which a call of p's thread raises.
ProcRaises(p) ==
    /\ p \in DOMAIN prun'
    /\ prun'[p].raised
    /\ p \in DOMAIN prun => ~prun[p].raised

\* C17: an exception raised while one sender's drained buffer is processed
\* (by the rate limiter, the responder or a send) is caught in that
\* sender's thread: the step leaves the worker and the threads of other
\* senders as they are; no step of a processing thread ends the worker; the
\* worker's loop starts a thread for the next ready pair whatever earlier
\* threads did, and leaves the loop for the expiry test only with every
\* ready pair started; and the worker, unless its own Thread.start() raised,
\* and every thread that has not ended can always take their next step.
C17_ProcessingFailureIsIsolated ==
    /\ [][/\ \A p \in procs :
                ProcRaises(p) =>
                  /\ prun'[p].pc = "caught"
                  /\ <<wpc, wnow, ready, buffer, procs, last_cleanup, order>>' =
                       <<wpc, wnow, ready, buffer, procs, last_cleanup, order>>
                  /\ \A q \in DOMAIN prun \ {p} : prun'[q] = prun[q]
          /\ prun' # prun => wpc' = wpc
          /\ (wpc # "dead" /\ wpc' = "dead") => (wpc = "dispatch" /\ ready # {})
          /\ (wpc = "dispatch" /\ wpc' = "dispatch" /\ ready' # ready) =>
               \E p \in ready : /\ p[1] = Head(order.ready)
                                /\ ready' = ready \ {p}
                                /\ procs' = procs \cup {p}
          /\ (wpc = "dispatch" /\ wpc' \in {"sleep", "sweep"}) => ready = {}
          ]_vars
    /\ [](wpc # "dead" => ENABLED WorkerStep)
    /\ [](\A q \in procs : ENABLED ProcStep(q))

\* One sender's thread ended in its except clause, the thread of another
\* sender returned, and the worker is in a later iteration.
C17_Witness ==
    \E p \in DOMAIN prun, q \in DOMAIN prun :
      /\ p[1] # q[1]
      /\ prun[p].pc = "caught"
      /\ prun[q].pc = "returned" /\ prun[q].i > 0
      /\ wpc = "drain"

\* The replies handle_message returned to p's thread hold the escalation
\* phrase.
RepliesEscalate(p) ==
    \E k \in 1..Len(prun[p].messages) : prun[p].messages[k] = "escalation"

\* C19: whenever the list of replies for a drained buffer holds a reply with
\* the escalation phrase, every configured owner is sent an escalation
\* notification for that customer before the thread ends.
C19_EveryOwnerNotified ==
    \A p \in DOMAIN prun :
      (prun[p].pc \in {"returned", "caught"} /\ RepliesEscalate(p)) =>
        \A o \in Owners :
          \E msg \in prun[p].sent : msg.to = o /\ msg.kind = "needs_help"

\* C20: for each drained buffer check_and_increment is called exactly once
\* and before handle_message, which is called only after it returned true;
\* when it returns false handle_message is not called and the only
\* message sent is the daily-limit notice to the sender.
C20_LimiterOnceAndFirst ==
    \A p \in DOMAIN prun :
      LET s == prun[p] IN
        /\ s.calls \in {<<"check_and_increment">>,
                         <<"check_and_increment", "handle_message">>}
        /\ Len(s.calls) = 2 => s.limit = "allowed"
        /\ s.limit = "limited" =>
             /\ s.calls = <<"check_and_increment">>
             /\ \A msg \in s.sent : msg.to = p[1] /\ msg.kind = "limit"
             /\ (s.pc = "returned" =>
                  s.sent = {[to |-> p[1], kind |-> "limit", ok |-> TRUE]})

\* A thread whose sender was over its limit sent the notice and returned,
\* while another thread went through handle_message and its replies.
C20_Witness ==
    \E p \in DOMAIN prun, q \in DOMAIN prun :
      /\ prun[p].limit = "limited" /\ prun[p].pc = "returned"
      /\ prun[p].sent = {[to |-> p[1], kind |-> "limit", ok |-> TRUE]}
      /\ prun[q].limit = "allowed" /\ prun[q].pc = "returned" /\ prun[q].i > 0

\* C21: after every call of a sequential run made on both backings at the
\* same times, the two backings returned the same result and hold the same
\* (customer, operator) records.
C21_BackingsAgree ==
    /\ twin.mem = twin.db
    /\ mem_list_active(handoffs) = db_list_active(table)

\* The record of customer has last_activity t.
Held(customer, t) ==
    customer \in DOMAIN Registry /\ Registry[customer].last_activity = t

\* The clock still runs for a whole sweep period.
PeriodLeft == now + SWEEP_PERIOD <= LifeLast

\* A sweep takes the record of customer away.
SweepRemoves(customer) ==
    /\ wpc = "cleanup"
    /\ customer \in DOMAIN Registry
    /\ customer \notin DOMAIN Registry'

\* C22 (first half): a record whose last_activity stays what it is is
\* removed in the end, the worker being scheduled.
C22_IdleRecordIsRemoved ==
    \A c \in RaceCustomers : \A i \in 1..Len(LifeInstants) :
        (Held(c, LifeInstants[i]) /\ PeriodLeft)
            ~> ~Held(c, LifeInstants[i])

\* C22 (second half): a sweep removes only a record that was not refreshed
\* for the timeout or longer.
C22_SweepRemovesOnlyIdle ==
    [][\A c \in RaceCustomers :
         SweepRemoves(c) => now - Registry[c].last_activity >= HandoffTimeout]_vars

\* C22: a record never refreshed again is removed by a sweep in the end,
\* the worker being scheduled; a record refreshed at intervals shorter
\* than the timeout is never removed by a sweep.
C22_SweepRemovesIdleRecordsOnly ==
    C22_IdleRecordIsRemoved /\ C22_SweepRemovesOnlyIdle

\* C23: however many requests are inside _ensure_worker_started at once,
\* at most one worker thread is ever started.
C23_AtMostOneWorker == ens.workers <= 1

\* A request started the worker while another, past the first test of the
\* flag, was stopped by the test under the lock.
C23_Witness ==
    /\ ens.workers = 1
    /\ \E r, q \in Requests : ens.path[r] = "started" /\ ens.path[q] = "recheck"

\* The tick time of the previous call of cleanup_expired, or the time the
\* worker started.
PrevSweep == IF sweeps = <<>> THEN 0 ELSE sweeps[Len(sweeps)]

\* C24: a tick goes on to cleanup_expired exactly when SWEEP_PERIOD or more
\* has passed since the previous sweep or the worker's start; consecutive
\* sweeps are SWEEP_PERIOD or more apart; every tick runs the drain step.
C24_SweepEveryPeriodDrainEveryTick ==
    /\ [][/\ (wpc = "dispatch" /\ wpc' \notin {"dispatch", "dead"}) =>
               (wpc' = "sweep" <=> wnow - PrevSweep >= SWEEP_PERIOD)
          /\ (wpc = "sleep" /\ wpc' # "sleep") => wpc' = "drain"
          /\ (wpc = "drain" /\ wpc' # "drain") => wpc' = "dispatch"
          /\ sweeps' # sweeps =>
               (wpc = "sweep" /\ sweeps' = Append(sweeps, wnow))
          /\ (wpc = "sweep" /\ wpc' # "sweep") => sweeps' # sweeps]_vars
    /\ [](/\ \A i \in 1..Len(sweeps) :
               sweeps[i] - (IF i = 1 THEN 0 ELSE sweeps[i - 1]) >= SWEEP_PERIOD
          /\ wpc = "drain" => ENABLED WorkerDrain)

\* The worker has called cleanup_expired on two ticks, and is in a later
\* tick on which the check is not due.
C24_Witness ==
    /\ Len(sweeps) = 2
    /\ wpc = "dispatch"
    /\ wnow - PrevSweep < SWEEP_PERIOD

\* C25: no thread holds _buffer_lock and _handoff_lock together, and no
\* thread holds either while its send, responder call or rate-limiter call
\* is in flight.
C25_LocksNeverNestNorSpanCalls ==
    \A th \in LockThreads :
        /\ ~(lk.buffer_lock = th /\ lk.handoff_lock = th)
        /\ lk.busy[th] # "-" => (lk.buffer_lock # th /\ lk.handoff_lock # th)

\* The worker's auto-release send is in flight while a request holds
\* _buffer_lock and an owner's handler holds _handoff_lock.
C25_Witness ==
    /\ lk.busy["worker"] = "send"
    /\ lk.buffer_lock = "webhook"
    /\ lk.handoff_lock = "owner"

\* What the handler h of a message that is no TAKE has sent, once it is
\* through: after DONE with a record for c, the release notice to the owner
\* and the back-with-assistant notice to c, and nothing else; without a
\* record, the command list to the owner.
DoneOutcome(h) ==
    LET k == hst[h] IN
    (k.pc = "done" /\ k.cmd # "TAKE") =>
        /\ (k.cmd = "DONE" /\ k.current # {}) =>
             /\ k.calls = <<"get_owner_handoff", "release">>
             /\ k.sent = {[to |-> k.owner, kind |-> "released"]} \cup
                         {[to |-> c, kind |-> "back"] : c \in k.current}
        /\ k.current = {} =>
             /\ k.calls = <<"get_owner_handoff">>
             /\ k.sent = {[to |-> k.owner, kind |-> "help"]}

\* The registry calls of handler h: DONE's release removes the record of
\* the owner's customer; a handler that found no record changes nothing.
DoneRegistry(h) ==
    LET k == hst[h] IN
    (hst'[h].pc # k.pc /\ k.cmd \in {"DONE", "TEXT"}) =>
        /\ (k.pc = "release") => \A c \in k.current : c \notin DOMAIN Registry'
        /\ (k.pc = "help") => Registry' = Registry

\* C26: DONE of an operator with a claim on C removes the record for C and
\* sends the release notice to the operator and the back-with-assistant
\* notice to C, DONE itself not being forwarded; DONE or other text of an
\* operator without a claim leaves the registry as it is and gets the help
\* message.
C26_DoneReleasesElseHelp ==
    /\ [][\A h \in Handlers : DoneRegistry(h)]_vars
    /\ [](\A h \in Handlers : DoneOutcome(h))

\* An owner's DONE released its customer, and the same owner's text, sent
\* without a record, got the command list.
C26_Witness ==
    \E h, g \in Handlers :
        /\ hst[h].pc = "done" /\ hst[h].cmd = "DONE" /\ hst[h].current # {}
        /\ hst[g].pc = "done" /\ hst[g].cmd = "TEXT" /\ hst[g].current = {}
        /\ hst[g].owner = hst[h].owner

\* The thread of p calls handle_message.
RespondsTo(p) ==
    /\ p \in DOMAIN prun /\ prun[p].pc = "respond"
    /\ p \in DOMAIN prun' /\ prun'[p].pc # "respond"

\* C27: the responder is never invoked for a customer that has an active
\* hand-off record at that moment.
C27_NoResponderWhileClaimed ==
    [][\A p \in procs : RespondsTo(p) => get_active_handoff(p[1]) = {}]_vars

\* The worker's call of cleanup_expired raises.
CleanupRaises == wpc = "cleanup" /\ ~DbReachable /\ wpc' # "cleanup"

\* C28: an exception of cleanup_expired does not end the worker: its loop
\* goes on to the next tick, where idle buffers are drained.
C28_WorkerOutlivesCleanupFailure ==
    [][CleanupRaises => wpc' = "sleep"]_vars

\* Handler h runs its release(current) and a record goes.
ReleaseDeletes(h, c) ==
    /\ hst[h].pc = "release" /\ hst'[h].pc # "release"
    /\ c \in hst[h].current
    /\ c \in DOMAIN Registry

\* C29: the release of an operator's DONE or TAKE switch deletes only a
\* record whose operator is that operator when it is deleted.
C29_ReleaseDeletesOwnRecordOnly ==
    [][\A h \in Handlers : \A c \in Customers :
         ReleaseDeletes(h, c) => Registry[c].owner = hst[h].owner]_vars

\* FragmentTexts[i] is in the buffer entry of u, stamped t.
Stamped(i, u, t) ==
    /\ u \in DOMAIN buffer
    /\ buffer[u].last_received = t
    /\ \E k \in 1..Len(buffer[u].messages) :
         buffer[u].messages[k] = FragmentTexts[i]

\* The _process_and_reply threads whose text holds FragmentTexts[i].
ThreadsWith(i) == {p \in procs : Occurs(i, p[2]) > 0}

\* C30 (first half): a fragment in the buffer reaches a thread once its
\* sender has sent nothing for BUFFER_DELAY, or the entry gets a later stamp.
C30_FragmentIsHandedOn ==
    \A i \in 1..MaxRouteFrags : \A u \in RaceCustomers :
       \A k \in 1..Len(LifeInstants) :
           (Stamped(i, u, LifeInstants[k])
              /\ LifeInstants[k] + BUFFER_DELAY <= LifeLast)
             ~> (\/ ThreadsWith(i) # {}
                 \/ u \in DOMAIN buffer /\ buffer[u].last_received > LifeInstants[k])

\* C30 (second half): no fragment is drained twice or in two threads.
C30_OneThreadPerFragment ==
    \A i \in 1..MaxRouteFrags :
        delivered[i] <= 1 /\ Cardinality(ThreadsWith(i)) <= 1

\* C30: a fragment in the buffer is handed to a _process_and_reply thread,
\* and to one only, once its sender has sent nothing for BUFFER_DELAY, the
\* worker being scheduled.
C30_EveryFragmentReachesOneThread ==
    C30_FragmentIsHandedOn /\ []C30_OneThreadPerFragment

\* The thread webhook started for f sends the body to f.owner.
ForwardSent(f) ==
    /\ f \in fwd /\ f.pc = "forward"
    /\ [f EXCEPT !.pc = "sent"] \in fwd'

\* C31: a claimed customer's message is sent only to an operator that holds
\* the claim on the customer when the forward is sent.
C31_ForwardGoesToCurrentOwner ==
    [][\A f \in fwd :
         ForwardSent(f) =>
           \E h \in get_active_handoff(f.user_number) : h.owner = f.owner]_vars

\* The take_over of h found its customer held by another operator.
FoundOther(h) == hst[h].row # {} /\ hst[h].row # {hst[h].owner}

\* C32: when an operator that holds a claim on C1 sends TAKE for a customer
\* C2 that another operator holds, take_over returns false and the operator
\* is left with no claim: the record for C1 was released and does not come
\* back, and the operator is told that C2 is taken.
C32_RejectedSwitchLeavesNoClaim ==
    [][\A h \in Handlers :
         /\ (TakeSwitch(h) /\ TakeOverReturns(h) /\ FoundOther(h)') =>
              /\ ~hst'[h].ok
              /\ OwnedBy(hst[h].owner)' = {}
              /\ hst[h].customer \in DOMAIN Registry'
              /\ Registry'[hst[h].customer].owner \in hst'[h].row
         /\ (TakeSwitch(h) /\ FoundOther(h)
               /\ hst[h].pc = "reply" /\ hst'[h].pc = "done") =>
              /\ hst'[h].sent = {[to |-> hst[h].owner, kind |-> "rejected"]}
              /\ OwnedBy(hst[h].owner)' = {}
      ]_vars

====
